---- MODULE Spec2Model ----
(***************************************************************************)
(* claude-ext: the extensions manager of src/main.py.                      *)
(*                                                                         *)
(* The state is the filesystem the program works on: the bundled source    *)
(* tree extensions/{agents,commands,workflows} and the install trees       *)
(* <level>/.claude/{agents,commands}, plus a record of the last call and   *)
(* what it returned.  Every function of main.py that touches the           *)
(* filesystem is an operator on a world [fs, dirs]; every action is one    *)
(* call of one of them.                                                    *)
(***************************************************************************)
EXTENDS Integers, Sequences, FiniteSets, TLC

VARIABLES
    fs,      \* existing directory entries: path -> content (files), DirMark (subdirectories)
    dirs,    \* existing type directories <claude dir or extensions dir>/<type>s
    last,    \* the last call: its arguments, the world before it, and its outcome
    recent,  \* history: the <<type, name, level>> whose most recent successful operation
             \* was an install (level: the project path, None for user level)
    procs,   \* two install_extension calls running at once: where each one is
    session, \* interactive mode: the prompt it waits at and the answers so far
    disk,    \* what get_claude_projects reads: the home directory, the directories and
             \* files there are, whether ~/.claude/projects is there, and its entries
    prompt   \* the numbered multi-select: its items, the selection, the lines typed

vars == <<fs, dirs, last, recent, procs, session, disk, prompt>>

-----------------------------------------------------------------------------
(* Bounds of the model *)

\* longest list of names handed to install_multiple_extensions
MaxNames == 2

Names == {"a", "b"}
ExtTypes == {"agent", "command"}
Projects == {"p1"}
None == "None"
HomeDir == "~"
DirMark == "<dir>"

-----------------------------------------------------------------------------
(* Paths *)

\* (variant: the project path is dropped, everything goes to the user level)
get_claude_dir_home(project_path) == HomeDir \o "/.claude"

\* Path.home() / ".claude" or Path(project_path) / ".claude"
get_claude_dir(project_path) ==
    IF project_path # None
    THEN project_path \o "/.claude"
    ELSE HomeDir \o "/.claude"

\* Path(__file__).parent / "extensions"
get_extensions_dir == "extensions"

\* (variant: every type shares the agents directory)
TypeDirShared(base, ext_type) == [root |-> base, dir |-> "agents"]

\* <base> / f"{ext_type}s"
TypeDir(base, ext_type) == [root |-> base, dir |-> ext_type \o "s"]

\* <type dir> / f"{name}{suffix}"
FilePath(type_dir, name, suffix) ==
    [root |-> type_dir.root, dir |-> type_dir.dir, stem |-> name, suffix |-> suffix]

Parent(path) == [root |-> path.root, dir |-> path.dir]

-----------------------------------------------------------------------------
(* The filesystem calls the program makes *)

\* Path.exists()
Exists(w, path) == path \in DOMAIN w.fs

\* Path.exists() of a type directory
DirExists(w, type_dir) == type_dir \in w.dirs

\* Path.is_file()
IsFile(w, path) == Exists(w, path) /\ w.fs[path] # DirMark

\* the entries Path.iterdir() yields, as a set (the order is the caller's problem)
Entries(w, type_dir) == {p \in DOMAIN w.fs : Parent(p) = type_dir}

\* Path.mkdir(parents=True, exist_ok=True)
Mkdir(w, type_dir) == [w EXCEPT !.dirs = @ \cup {type_dir}]

\* (variant: the target is created but the bytes are not copied)
CopyTruncated(w, source_file, target_file) ==
    [w EXCEPT !.fs = [p \in DOMAIN w.fs \cup {target_file} |->
                         IF p = target_file THEN "" ELSE w.fs[p]]]

\* (variant: the source is moved to the target, as shutil.move would)
Copy2Move(w, source_file, target_file) ==
    [w EXCEPT !.fs = [p \in (DOMAIN w.fs \cup {target_file}) \ {source_file} |->
                         IF p = target_file THEN w.fs[source_file] ELSE w.fs[p]]]

\* shutil.copy2(source_file, target_file): the target gets the source's bytes
Copy2(w, source_file, target_file) ==
    [w EXCEPT !.fs = [p \in DOMAIN w.fs \cup {target_file} |->
                         IF p = target_file THEN w.fs[source_file] ELSE w.fs[p]]]

\* (variant: the whole type directory is emptied, as shutil.rmtree would)
UnlinkSiblings(w, path) ==
    [w EXCEPT !.fs = [p \in {q \in DOMAIN w.fs : Parent(q) # Parent(path)} |-> w.fs[p]]]

\* Path.unlink()
Unlink(w, path) ==
    [w EXCEPT !.fs = [p \in DOMAIN w.fs \ {path} |-> w.fs[p]]]

\* the elements of a list
Range(s) == {s[i] : i \in 1..Len(s)}

\* The OSError (permission denied, disk full, ...) the filesystem may raise on one
\* name of a call: at "mkdir" nothing is created, at "copy" the directory already is.
NoErr == [name |-> None, at |-> "none"]
OsErrs == {NoErr} \cup [name : Names, at : {"mkdir", "copy"}]
ErrAt(oserr, name) == IF oserr.name = name THEN oserr.at ELSE "none"

-----------------------------------------------------------------------------
(* install_extension, uninstall_extension *)

Outcome(w, raised, msg) == [fs |-> w.fs, dirs |-> w.dirs, raised |-> raised, msg |-> msg]

\* (variant: the "already exists" check is missing)
install_extension_overwrite(w, ext_type, name, project_path, force, oserr) ==
    LET source_file == FilePath(TypeDir(get_extensions_dir, ext_type), name, ".md")
        target_file == FilePath(TypeDir(get_claude_dir(project_path), ext_type), name, ".md")
    IN  IF ~Exists(w, source_file)
        THEN Outcome(w, "Exit(1)", "not found")
        ELSE IF ErrAt(oserr, name) = "mkdir"
        THEN Outcome(w, "OSError", "")
        ELSE IF ErrAt(oserr, name) = "copy"
        THEN Outcome(Mkdir(w, Parent(target_file)), "OSError", "")
        ELSE Outcome(Copy2(Mkdir(w, Parent(target_file)), source_file, target_file),
                     "none", "Installed")

\* (variant: the target directory is made before the source is looked for)
install_extension_mkdir_first(w, ext_type, name, project_path, force, oserr) ==
    LET source_file == FilePath(TypeDir(get_extensions_dir, ext_type), name, ".md")
        target_file == FilePath(TypeDir(get_claude_dir(project_path), ext_type), name, ".md")
        made == Mkdir(w, Parent(target_file))
    IN  IF ErrAt(oserr, name) = "mkdir"
        THEN Outcome(w, "OSError", "")
        ELSE IF ~Exists(w, source_file)
        THEN Outcome(made, "Exit(1)", "not found")
        ELSE IF Exists(w, target_file) /\ ~force
        THEN Outcome(made, "Exit(1)", "already installed")
        ELSE IF ErrAt(oserr, name) = "copy"
        THEN Outcome(made, "OSError", "")
        ELSE Outcome(Copy2(made, source_file, target_file), "none", "Installed")

install_extension(w, ext_type, name, project_path, force, oserr) ==
    LET source_file == FilePath(TypeDir(get_extensions_dir, ext_type), name, ".md")
        target_file == FilePath(TypeDir(get_claude_dir(project_path), ext_type), name, ".md")
    IN  IF ~Exists(w, source_file)
        THEN Outcome(w, "Exit(1)", "not found")
        ELSE IF Exists(w, target_file) /\ ~force
        THEN Outcome(w, "Exit(1)", "already installed")
        ELSE IF ErrAt(oserr, name) = "mkdir"
        THEN Outcome(w, "OSError", "")
        ELSE IF ErrAt(oserr, name) = "copy"
        THEN Outcome(Mkdir(w, Parent(target_file)), "OSError", "")
        ELSE Outcome(Copy2(Mkdir(w, Parent(target_file)), source_file, target_file),
                     "none", "Installed")

\* (variant: success is reported but the file is not removed)
uninstall_extension_keep(w, ext_type, name, project_path, oserr) ==
    LET target_file == FilePath(TypeDir(get_claude_dir(project_path), ext_type), name, ".md")
    IN  IF ~Exists(w, target_file)
        THEN Outcome(w, "Exit(1)", "not found")
        ELSE IF ErrAt(oserr, name) # "none"
        THEN Outcome(w, "OSError", "")
        ELSE Outcome(w, "none", "Uninstalled")

uninstall_extension(w, ext_type, name, project_path, oserr) ==
    LET target_file == FilePath(TypeDir(get_claude_dir(project_path), ext_type), name, ".md")
    IN  IF ~Exists(w, target_file)
        THEN Outcome(w, "Exit(1)", "not found")
        ELSE IF ErrAt(oserr, name) # "none"
        THEN Outcome(w, "OSError", "")
        ELSE Outcome(Unlink(w, target_file), "none", "Uninstalled")

-----------------------------------------------------------------------------
(* install_multiple_extensions *)

World == [fs |-> fs, dirs |-> dirs]

Source(ext_type, name) ==
    FilePath(TypeDir(get_extensions_dir, ext_type), name, ".md")

\* (variant: force is not honoured, an existing target always fails)
install_multiple_step_noforce(acc, ext_type, name, project_path, force, oserr) ==
    LET w == [fs |-> acc.fs, dirs |-> acc.dirs]
        source_file == FilePath(TypeDir(get_extensions_dir, ext_type), name, ".md")
        target_file == FilePath(TypeDir(get_claude_dir(project_path), ext_type), name, ".md")
    IN  IF ~Exists(w, source_file)
        THEN [acc EXCEPT !.failed = Append(@, name), !.msgs = Append(@, "Not found")]
        ELSE IF Exists(w, target_file)
        THEN [acc EXCEPT !.failed = Append(@, name),
                         !.msgs = Append(@, "Already installed")]
        ELSE IF ErrAt(oserr, name) = "mkdir"
        THEN [acc EXCEPT !.failed = Append(@, name), !.msgs = Append(@, "Failed")]
        ELSE IF ErrAt(oserr, name) = "copy"
        THEN [acc EXCEPT !.dirs = @ \cup {Parent(target_file)},
                         !.failed = Append(@, name), !.msgs = Append(@, "Failed")]
        ELSE LET done == Copy2(Mkdir(w, Parent(target_file)), source_file, target_file)
             IN  [acc EXCEPT !.fs = done.fs, !.dirs = done.dirs,
                             !.wrote = @ \cup {target_file},
                             !.successful = Append(@, name),
                             !.msgs = Append(@, "Installed successfully")]

\* (variant: a name is counted as successful before its copy, so that a copy that
\* raises leaves it in both lists)
install_multiple_step_early(acc, ext_type, name, project_path, force, oserr) ==
    LET w == [fs |-> acc.fs, dirs |-> acc.dirs]
        source_file == FilePath(TypeDir(get_extensions_dir, ext_type), name, ".md")
        target_file == FilePath(TypeDir(get_claude_dir(project_path), ext_type), name, ".md")
    IN  IF ~Exists(w, source_file)
        THEN [acc EXCEPT !.failed = Append(@, name), !.msgs = Append(@, "Not found")]
        ELSE IF Exists(w, target_file) /\ ~force
        THEN [acc EXCEPT !.failed = Append(@, name),
                         !.msgs = Append(@, "Already installed")]
        ELSE IF ErrAt(oserr, name) = "mkdir"
        THEN [acc EXCEPT !.successful = Append(@, name),
                         !.failed = Append(@, name), !.msgs = Append(@, "Failed")]
        ELSE IF ErrAt(oserr, name) = "copy"
        THEN [acc EXCEPT !.dirs = @ \cup {Parent(target_file)},
                         !.successful = Append(@, name),
                         !.failed = Append(@, name), !.msgs = Append(@, "Failed")]
        ELSE LET done == Copy2(Mkdir(w, Parent(target_file)), source_file, target_file)
             IN  [acc EXCEPT !.fs = done.fs, !.dirs = done.dirs,
                             !.wrote = @ \cup {target_file},
                             !.successful = Append(@, name),
                             !.msgs = Append(@, "Installed successfully")]

\* one pass of the for loop: the world and the two lists after name
\* (wrote: the targets shutil.copy2 has written in this call)
install_multiple_step(acc, ext_type, name, project_path, force, oserr) ==
    LET w == [fs |-> acc.fs, dirs |-> acc.dirs]
        source_file == FilePath(TypeDir(get_extensions_dir, ext_type), name, ".md")
        target_file == FilePath(TypeDir(get_claude_dir(project_path), ext_type), name, ".md")
    IN  IF ~Exists(w, source_file)
        THEN [acc EXCEPT !.failed = Append(@, name), !.msgs = Append(@, "Not found")]
        ELSE IF Exists(w, target_file) /\ ~force
        THEN [acc EXCEPT !.failed = Append(@, name),
                         !.msgs = Append(@, "Already installed")]
        ELSE IF ErrAt(oserr, name) = "mkdir"
        THEN [acc EXCEPT !.failed = Append(@, name), !.msgs = Append(@, "Failed")]
        ELSE IF ErrAt(oserr, name) = "copy"
        THEN [acc EXCEPT !.dirs = @ \cup {Parent(target_file)},
                         !.failed = Append(@, name), !.msgs = Append(@, "Failed")]
        ELSE LET done == Copy2(Mkdir(w, Parent(target_file)), source_file, target_file)
             IN  [acc EXCEPT !.fs = done.fs, !.dirs = done.dirs,
                             !.wrote = @ \cup {target_file},
                             !.successful = Append(@, name),
                             !.msgs = Append(@, "Installed successfully")]

\* (variant: the loop ends at the first failed item, break for continue)
RECURSIVE install_multiple_loop_break(_, _, _, _, _, _, _)
install_multiple_loop_break(acc, ext_type, names, i, project_path, force, oserr) ==
    IF i > Len(names) \/ acc.failed # <<>>
    THEN acc
    ELSE install_multiple_loop_break(
             install_multiple_step(acc, ext_type, names[i], project_path, force, oserr),
             ext_type, names, i + 1, project_path, force, oserr)

RECURSIVE install_multiple_loop(_, _, _, _, _, _, _)
install_multiple_loop(acc, ext_type, names, i, project_path, force, oserr) ==
    IF i > Len(names)
    THEN acc
    ELSE install_multiple_loop(
             install_multiple_step(acc, ext_type, names[i], project_path, force, oserr),
             ext_type, names, i + 1, project_path, force, oserr)

install_multiple_extensions(w, ext_type, names, project_path, force, oserr) ==
    install_multiple_loop(
        [fs |-> w.fs, dirs |-> w.dirs, successful |-> <<>>, failed |-> <<>>, msgs |-> <<>>,
         wrote |-> {}],
        ext_type, names, 1, project_path, force, oserr)

-----------------------------------------------------------------------------
(* Workflows *)

NoDef ==
    [loaded |-> FALSE, level |-> None, command |-> None, agents |-> <<>>,
     helper_commands |-> <<>>]

\* yaml.safe_load of the bundled workflow files: the parsed mapping, by file content.
\* level = None, command = None, agents = <<>>, helper_commands = <<>> stand for
\* a missing key. wd names its main command among its helper commands as well.
yaml_safe_load(content) ==
    CASE content = "workflow wu" ->
            [loaded |-> TRUE, level |-> "user", command |-> "a",
             agents |-> <<"a", "b">>, helper_commands |-> <<>>]
      [] content = "workflow wp" ->
            [loaded |-> TRUE, level |-> "project", command |-> "a",
             agents |-> <<"b">>, helper_commands |-> <<"b">>]
      [] content = "workflow wp (yml)" ->
            [loaded |-> TRUE, level |-> "user", command |-> None,
             agents |-> <<"a">>, helper_commands |-> <<>>]
      [] content = "workflow wd" ->
            [loaded |-> TRUE, level |-> None, command |-> "a",
             agents |-> <<"b">>, helper_commands |-> <<"a">>]
      [] OTHER -> NoDef

load_workflow_definition(w, workflow_name) ==
    LET yaml == FilePath(TypeDir(get_extensions_dir, "workflow"), workflow_name, ".yaml")
        yml == FilePath(TypeDir(get_extensions_dir, "workflow"), workflow_name, ".yml")
    IN  IF Exists(w, yaml) THEN yaml_safe_load(w.fs[yaml])
        ELSE IF Exists(w, yml) THEN yaml_safe_load(w.fs[yml])
        ELSE NoDef

\* (variant: the agents are installed before the main command)
ComponentsAgentsFirst(def) ==
    [i \in 1..Len(def.agents) |-> <<"agent", def.agents[i]>>]
    \o (IF def.command # None THEN << <<"command", def.command>> >> ELSE <<>>)
    \o [i \in 1..Len(def.helper_commands) |-> <<"command", def.helper_commands[i]>>]

\* main command, then agents, then helper commands: the order of the three loops
Components(def) ==
    (IF def.command # None THEN << <<"command", def.command>> >> ELSE <<>>)
    \o [i \in 1..Len(def.agents) |-> <<"agent", def.agents[i]>>]
    \o [i \in 1..Len(def.helper_commands) |-> <<"command", def.helper_commands[i]>>]

\* one component: installed through install_extension when its source file exists;
\* the bare except swallows Exit(1) and every other exception
install_component(acc, comp, target_path, force, oserr) ==
    LET w == [fs |-> acc.fs, dirs |-> acc.dirs]
        r == install_extension(w, comp[1], comp[2], target_path, force, oserr)
    IN  IF ~Exists(w, Source(comp[1], comp[2]))
        THEN acc
        ELSE IF r.raised = "none"
        THEN [acc EXCEPT !.fs = r.fs, !.dirs = r.dirs,
                         !.installed_components = Append(@, comp)]
        ELSE [acc EXCEPT !.fs = r.fs, !.dirs = r.dirs, !.all_success = FALSE]

RECURSIVE install_components_stop(_, _, _, _, _, _)
\* (variant: the first component that fails ends the installation)
install_components_stop(acc, comps, i, target_path, force, oserr) ==
    IF i > Len(comps) \/ ~acc.all_success
    THEN acc
    ELSE install_components_stop(install_component(acc, comps[i], target_path, force, oserr),
                                 comps, i + 1, target_path, force, oserr)

RECURSIVE install_components(_, _, _, _, _, _)
install_components(acc, comps, i, target_path, force, oserr) ==
    IF i > Len(comps)
    THEN acc
    ELSE install_components(install_component(acc, comps[i], target_path, force, oserr),
                            comps, i + 1, target_path, force, oserr)

\* (variant: the definition's level is not looked at)
workflow_target_path_passed(workflow_def, project_path) == project_path

\* the level the workflow's components go to
workflow_target_path(workflow_def, project_path) ==
    IF workflow_def.level = "user" THEN None ELSE project_path

install_workflow(w, name, project_path, force, oserr) ==
    LET workflow_def == load_workflow_definition(w, name)
        start == [fs |-> w.fs, dirs |-> w.dirs, installed_components |-> <<>>,
                  all_success |-> TRUE, found |-> TRUE]
        r == install_components(start, Components(workflow_def), 1,
                                workflow_target_path(workflow_def, project_path),
                                force, oserr)
    IN  IF ~workflow_def.loaded
        THEN [start EXCEPT !.all_success = FALSE, !.found = FALSE]
        ELSE IF r.installed_components = <<>>
        THEN [r EXCEPT !.all_success = FALSE]
        ELSE r

-----------------------------------------------------------------------------
(* Listing *)

\* Path.iterdir(): the entries of a directory in an arbitrary order ("the children
\* are yielded in arbitrary order"), as the set of the sequences it may yield
Orders(S) ==
    {o \in [1..Cardinality(S) -> S] : \A i, j \in 1..Cardinality(S) : o[i] = o[j] => i = j}

iterdir(w, type_dir) == Orders(Entries(w, type_dir))

RECURSIVE Collect(_, _, _, _)
\* the entries of order, in order, that are files with one of the suffixes
Collect(w, order, i, suffixes) ==
    IF i > Len(order)
    THEN <<>>
    ELSE (IF IsFile(w, order[i]) /\ order[i].suffix \in suffixes
          THEN <<order[i]>>
          ELSE <<>>) \o Collect(w, order, i + 1, suffixes)

list_available(w, ext_type, order) ==
    LET kept == IF ext_type = "workflow"
                THEN Collect(w, order, 1, {".yaml", ".yml"})
                ELSE Collect(w, order, 1, {".md"})
    IN  IF ~DirExists(w, TypeDir(get_extensions_dir, ext_type))
        THEN <<>>
        ELSE [i \in 1..Len(kept) |-> kept[i].stem]

list_installed(w, ext_type, project_path, order) ==
    LET kept == Collect(w, order, 1, {".md"})
    IN  IF ~DirExists(w, TypeDir(get_claude_dir(project_path), ext_type))
        THEN <<>>
        ELSE [i \in 1..Len(kept) |-> <<kept[i].stem, kept[i]>>]

\* what list_available / list_installed may return in world w
AvailableListings(w, ext_type) ==
    {list_available(w, ext_type, order) :
        order \in iterdir(w, TypeDir(get_extensions_dir, ext_type))}

InstalledListings(w, ext_type, project_path) ==
    {list_installed(w, ext_type, project_path, order) :
        order \in iterdir(w, TypeDir(get_claude_dir(project_path), ext_type))}

check_extension_exists(w, ext_type, name, project_path) ==
    Exists(w, FilePath(TypeDir(get_claude_dir(project_path), ext_type), name, ".md"))

-----------------------------------------------------------------------------
(* The record of a call *)

NoCall ==
    [op |-> "none", ext_type |-> None, names |-> <<>>, project_path |-> None,
     force |-> FALSE, oserr |-> NoErr, pre |-> [fs |-> <<>>, dirs |-> {}],
     raised |-> "none", msg |-> "", successful |-> <<>>, failed |-> <<>>,
     msgs |-> <<>>, wrote |-> {}, components |-> <<>>, all_success |-> FALSE,
     listing |-> <<>>]

Call(op, ext_type, names, project_path, force, oserr) ==
    [NoCall EXCEPT !.op = op, !.ext_type = ext_type, !.names = names,
                   !.project_path = project_path, !.force = force, !.oserr = oserr,
                   !.pre = World]

Idle == last.op = "none"

\* no concurrent install is running
NoProcs == <<>>

\* interactive mode is not running. at: the prompt waited at, or "off", "exited"
\* (typer.Exit), "done" (interactive() returned), "crashed" (uncaught exception);
\* the other fields are the local variables of interactive(), "" where unset
\* (picked: what multi_select returned; items: selected_items as it stands)
NoSession ==
    [at |-> "off", round |-> 0, ext_type |-> "", action |-> "", mode |-> "",
     selected |-> "", picked |-> <<>>, items |-> <<>>, project |-> None,
     overwrite |-> "",
     force |-> FALSE, confirm |-> "", pre |-> [fs |-> <<>>, dirs |-> {}]]

\* get_claude_projects is not being looked at: an empty disk
NoDisk == [home |-> <<>>, dirs |-> {}, files |-> {}, projects_dir |-> FALSE, projects |-> {}]

\* the numbered multi-select is not running. at: "off", "asking" (Prompt.ask waits
\* for a line), "returned"; items and selected are its argument and its local
\* variable, lines the input lines read so far, result what it returned
NoPrompt == [at |-> "off", items |-> <<>>, selected |-> {}, lines |-> <<>>, result |-> <<>>]

ProjectArgs == Projects \cup {None}

NameLists == UNION {[1..k -> Names] : k \in 1..MaxNames}

WorkflowNames == {"wu", "wp", "wd", "wx"}

-----------------------------------------------------------------------------
(* Initial filesystems *)

SourceTree ==
    (FilePath(TypeDir(get_extensions_dir, "agent"), "a", ".md") :> "agent a v1")
    @@ (FilePath(TypeDir(get_extensions_dir, "agent"), "b", ".md") :> "agent b v1")
    @@ (FilePath(TypeDir(get_extensions_dir, "agent"), "a", ".txt") :> "notes")
    @@ (FilePath(TypeDir(get_extensions_dir, "command"), "a", ".md") :> "command a v1")
    @@ (FilePath(TypeDir(get_extensions_dir, "command"), "old", ".md") :> DirMark)
    @@ (FilePath(TypeDir(get_extensions_dir, "workflow"), "wu", ".yaml") :> "workflow wu")
    @@ (FilePath(TypeDir(get_extensions_dir, "workflow"), "wp", ".yaml") :> "workflow wp")
    @@ (FilePath(TypeDir(get_extensions_dir, "workflow"), "wp", ".yml") :> "workflow wp (yml)")
    @@ (FilePath(TypeDir(get_extensions_dir, "workflow"), "wd", ".yaml") :> "workflow wd")
    @@ (FilePath(TypeDir(get_extensions_dir, "workflow"), "wx", ".yml") :> "")

SourceDirs ==
    {TypeDir(get_extensions_dir, t) : t \in {"agent", "command", "workflow"}}

\* install trees a user may already have: files installed from an older release,
\* a file that is no extension, a subdirectory
UsedTree ==
    (FilePath(TypeDir(get_claude_dir(None), "agent"), "a", ".md") :> "agent a v0")
    @@ (FilePath(TypeDir(get_claude_dir(None), "agent"), "b", ".yaml") :> "notes")
    @@ (FilePath(TypeDir(get_claude_dir(None), "agent"), "drafts", ".md") :> DirMark)
    @@ (FilePath(TypeDir(get_claude_dir(None), "command"), "b", ".md") :> "command b v0")

UsedDirs ==
    {TypeDir(get_claude_dir(None), "agent"), TypeDir(get_claude_dir(None), "command")}

InitFresh ==
    /\ fs = SourceTree
    /\ dirs = SourceDirs
    /\ last = NoCall
    /\ recent = {}
    /\ disk = NoDisk
    /\ prompt = NoPrompt
    /\ procs = NoProcs
    /\ session = NoSession

InitUsed ==
    /\ fs = SourceTree @@ UsedTree
    /\ dirs = SourceDirs \cup UsedDirs
    /\ last = NoCall
    /\ recent = {}
    /\ disk = NoDisk
    /\ prompt = NoPrompt
    /\ procs = NoProcs
    /\ session = NoSession

Init == InitUsed

-----------------------------------------------------------------------------
(* Actions: one call of the program each *)

Install(ext_type, name, project_path, force, at) ==
    LET oserr == [name |-> name, at |-> at]
        r == install_extension(World, ext_type, name, project_path, force, oserr)
    IN  /\ Idle
        /\ fs' = r.fs
        /\ dirs' = r.dirs
        /\ last' = [Call("install_extension", ext_type, <<name>>, project_path, force, oserr)
                       EXCEPT !.raised = r.raised, !.msg = r.msg]
        /\ UNCHANGED <<procs, session, disk, prompt>>
        /\ recent' = IF r.raised = "none"
                     THEN recent \cup {<<ext_type, name, project_path>>}
                     ELSE recent

Uninstall(ext_type, name, project_path, at) ==
    LET oserr == [name |-> name, at |-> at]
        r == uninstall_extension(World, ext_type, name, project_path, oserr)
    IN  /\ Idle
        /\ fs' = r.fs
        /\ dirs' = r.dirs
        /\ last' = [Call("uninstall_extension", ext_type, <<name>>, project_path, FALSE, oserr)
                       EXCEPT !.raised = r.raised, !.msg = r.msg]
        /\ UNCHANGED <<procs, session, disk, prompt>>
        /\ recent' = IF r.raised = "none"
                     THEN recent \ {<<ext_type, name, project_path>>}
                     ELSE recent

InstallMultiple(ext_type, names, project_path, force, oserr) ==
    LET r == install_multiple_extensions(World, ext_type, names, project_path, force, oserr)
    IN  /\ Idle
        /\ fs' = r.fs
        /\ dirs' = r.dirs
        /\ last' = [Call("install_multiple_extensions", ext_type, names, project_path,
                         force, oserr)
                       EXCEPT !.successful = r.successful, !.failed = r.failed,
                              !.msgs = r.msgs, !.wrote = r.wrote]
        /\ UNCHANGED <<procs, session, disk, prompt>>
        /\ recent' = recent \cup {<<ext_type, r.successful[i], project_path>> :
                                     i \in 1..Len(r.successful)}

InstallWorkflow(name, project_path, force, oserr) ==
    LET r == install_workflow(World, name, project_path, force, oserr)
        target_path ==
            workflow_target_path(load_workflow_definition(World, name), project_path)
    IN  /\ Idle
        /\ fs' = r.fs
        /\ dirs' = r.dirs
        /\ last' = [Call("install_workflow", "workflow", <<name>>, project_path, force, oserr)
                       EXCEPT !.components = r.installed_components,
                              !.all_success = r.all_success,
                              !.msg = IF r.found THEN "" ELSE "not found",
                              !.raised = IF ~r.all_success /\ r.installed_components = <<>>
                                         THEN "Exit(1)" ELSE "none"]
        /\ UNCHANGED <<procs, session, disk, prompt>>
        /\ recent' = recent \cup {<<r.installed_components[i][1],
                                      r.installed_components[i][2], target_path>> :
                                     i \in 1..Len(r.installed_components)}

ListAvailable(ext_type) ==
    /\ Idle
    /\ \E listing \in AvailableListings(World, ext_type) :
          last' = [Call("list_available", ext_type, <<>>, None, FALSE, NoErr)
                      EXCEPT !.listing = listing]
    /\ UNCHANGED <<fs, dirs, recent, procs, session, disk, prompt>>

ListInstalled(ext_type, project_path) ==
    /\ Idle
    /\ \E listing \in InstalledListings(World, ext_type, project_path) :
          last' = [Call("list_installed", ext_type, <<>>, project_path, FALSE, NoErr)
                      EXCEPT !.listing = listing]
    /\ UNCHANGED <<fs, dirs, recent, procs, session, disk, prompt>>

\* the process ends; the next command starts from the filesystem it left
ProcessExit ==
    /\ ~Idle
    /\ last' = NoCall
    /\ UNCHANGED <<fs, dirs, recent, procs, session, disk, prompt>>

Next ==
    \/ \E t \in ExtTypes, n \in Names, p \in ProjectArgs, f \in BOOLEAN,
          at \in {"none", "mkdir", "copy"} : Install(t, n, p, f, at)
    \/ \E t \in ExtTypes, n \in Names, p \in ProjectArgs,
          at \in {"none", "unlink"} : Uninstall(t, n, p, at)
    \/ \E t \in ExtTypes, ns \in NameLists, p \in ProjectArgs, f \in BOOLEAN,
          e \in OsErrs : InstallMultiple(t, ns, p, f, e)
    \/ \E n \in WorkflowNames, p \in ProjectArgs, f \in BOOLEAN,
          e \in OsErrs : InstallWorkflow(n, p, f, e)
    \/ \E t \in ExtTypes \cup {"workflow"} : ListAvailable(t)
    \/ \E t \in ExtTypes, p \in ProjectArgs : ListInstalled(t, p)
    \/ ProcessExit

Spec == Init /\ [][Next]_vars

\* the same program on a machine where nothing was installed before
SpecFresh == InitFresh /\ [][Next]_vars

\* The levels an extension can be installed at on a machine with two projects
LevelArgs == {None, "p1", "p2"}

\* single installs and uninstalls at the user level and in two projects
NextLevels ==
    \/ \E t \in ExtTypes, n \in Names, p \in LevelArgs, f \in BOOLEAN :
          Install(t, n, p, f, "none")
    \/ \E t \in ExtTypes, n \in Names, p \in LevelArgs : Uninstall(t, n, p, "none")
    \/ ProcessExit

SpecLevels == InitFresh /\ [][NextLevels]_vars

-----------------------------------------------------------------------------
(* Two install_extension calls at once: two processes of the program started on
   the same machine, each running the statements of install_extension in order,
   the other free to run between any two of them *)

RaceProcs == {"A", "B"}

StartProc(ext_type, name, project_path, force) ==
    [pc |-> "check", ext_type |-> ext_type, name |-> name,
     project_path |-> project_path, force |-> force,
     raised |-> "", msg |-> "", wrote |-> FALSE, replaced |-> FALSE, late |-> FALSE]

InitRace ==
    /\ fs = SourceTree @@ UsedTree
    /\ dirs = SourceDirs \cup UsedDirs
    /\ last = NoCall
    /\ recent = {}
    /\ disk = NoDisk
    /\ prompt = NoPrompt
    /\ session = NoSession
    /\ \E ta, tb \in ExtTypes, na, nb \in Names, pa, pb \in ProjectArgs,
          fa, fb \in BOOLEAN :
          procs = ("A" :> StartProc(ta, na, pa, fa)) @@ ("B" :> StartProc(tb, nb, pb, fb))

ProcSource(i) == FilePath(TypeDir(get_extensions_dir, procs[i].ext_type), procs[i].name, ".md")

ProcTarget(i) ==
    FilePath(TypeDir(get_claude_dir(procs[i].project_path), procs[i].ext_type),
             procs[i].name, ".md")

\* the other process has copied to this process's target
OtherCopied(i) ==
    \E j \in RaceProcs \ {i} : procs[j].wrote /\ ProcTarget(j) = ProcTarget(i)

\* (variant: the check looks for the source only)
RaceCheckSourceOnly(i) ==
    /\ procs[i].pc = "check"
    /\ procs' = [procs EXCEPT ![i] =
                    IF ~Exists(World, ProcSource(i))
                    THEN [@ EXCEPT !.pc = "done", !.raised = "Exit(1)", !.msg = "not found",
                                   !.late = OtherCopied(i)]
                    ELSE [@ EXCEPT !.pc = "mkdir", !.late = OtherCopied(i)]]
    /\ UNCHANGED <<fs, dirs, last, recent, session, disk, prompt>>

\* if not source_file.exists(): ... if target_file.exists() and not force: ...
\* late records whether the other process had copied by then
RaceCheck(i) ==
    /\ procs[i].pc = "check"
    /\ procs' = [procs EXCEPT ![i] =
                    IF ~Exists(World, ProcSource(i))
                    THEN [@ EXCEPT !.pc = "done", !.raised = "Exit(1)", !.msg = "not found",
                                   !.late = OtherCopied(i)]
                    ELSE IF Exists(World, ProcTarget(i)) /\ ~procs[i].force
                    THEN [@ EXCEPT !.pc = "done", !.raised = "Exit(1)",
                                   !.msg = "already installed", !.late = OtherCopied(i)]
                    ELSE [@ EXCEPT !.pc = "mkdir", !.late = OtherCopied(i)]]
    /\ UNCHANGED <<fs, dirs, last, recent, session, disk, prompt>>

\* target_dir.mkdir(parents=True, exist_ok=True)
RaceMkdir(i) ==
    /\ procs[i].pc = "mkdir"
    /\ dirs' = Mkdir(World, Parent(ProcTarget(i))).dirs
    /\ procs' = [procs EXCEPT ![i].pc = "copy"]
    /\ UNCHANGED <<fs, last, recent, session, disk, prompt>>

\* shutil.copy2(source_file, target_file); replaced records whether a file was there
RaceCopy(i) ==
    /\ procs[i].pc = "copy"
    /\ fs' = Copy2(World, ProcSource(i), ProcTarget(i)).fs
    /\ procs' = [procs EXCEPT ![i] =
                    [@ EXCEPT !.pc = "done", !.raised = "none", !.msg = "Installed",
                              !.wrote = TRUE,
                              !.replaced = Exists(World, ProcTarget(i))]]
    /\ recent' = recent \cup {<<procs[i].ext_type, procs[i].name, procs[i].project_path>>}
    /\ UNCHANGED <<dirs, last, session, disk, prompt>>

NextRace ==
    \/ \E i \in RaceProcs : RaceCheck(i)
    \/ \E i \in RaceProcs : RaceMkdir(i)
    \/ \E i \in RaceProcs : RaceCopy(i)

SpecRace == InitRace /\ [][NextRace]_vars

-----------------------------------------------------------------------------
(* Interactive mode: interactive() asks one question after another; each action
   below is one answer and the code that runs until the next question *)

\* interactive() calls itself for every "Yes, continue": the rounds explored
MaxRounds == 2

\* the order of str on the stems in use
Alphabetical == <<"a", "b", "c", "d", "drafts", "old", "wd", "wp", "wu", "wx">>

RECURSIVE sorted_from(_, _)
sorted_from(items, k) ==
    IF k > Len(Alphabetical)
    THEN <<>>
    ELSE SelectSeq(items, LAMBDA x : x = Alphabetical[k]) \o sorted_from(items, k + 1)

\* sorted(items)
sorted(items) == sorted_from(items, 1)

RECURSIVE SomeOrder(_)
\* one of the orders iterdir may yield the entries S in
SomeOrder(S) ==
    IF S = {} THEN <<>>
    ELSE LET first == CHOOSE x \in S : TRUE
         IN  <<first>> \o SomeOrder(S \ {first})

\* sorted(list_available(ext_type)): sorting makes the order of iterdir immaterial
SortedAvailable(w, ext_type) ==
    sorted(list_available(w, ext_type,
                          SomeOrder(Entries(w, TypeDir(get_extensions_dir, ext_type)))))

\* the names list_installed(ext_type, project) offers, whatever their order
InstalledNames(w, ext_type, project_path) ==
    LET listing == list_installed(w, ext_type, project_path,
                       SomeOrder(Entries(w, TypeDir(get_claude_dir(project_path), ext_type))))
    IN  {listing[i][1] : i \in 1..Len(listing)}

\* multi_select: some of the items, none twice; questionary returns them in the
\* order shown, the numbered fallback in the order of a set
Selections(items) ==
    {sel \in UNION {[1..k -> Range(items)] : k \in 0..MaxNames} :
        \A i, j \in 1..Len(sel) : sel[i] = sel[j] => i = j}

\* a machine with two more agents to choose from
InteractiveTree ==
    SourceTree
    @@ (FilePath(TypeDir(get_extensions_dir, "agent"), "c", ".md") :> "agent c v1")
    @@ (FilePath(TypeDir(get_extensions_dir, "agent"), "d", ".md") :> "agent d v1")

InitInteractive ==
    /\ fs = InteractiveTree @@ UsedTree
    /\ dirs = SourceDirs \cup UsedDirs
    /\ last = NoCall
    /\ recent = {}
    /\ disk = NoDisk
    /\ prompt = NoPrompt
    /\ procs = NoProcs
    /\ session = [NoSession EXCEPT !.at = "type", !.round = 1,
                                   !.pre = [fs |-> InteractiveTree @@ UsedTree,
                                            dirs |-> SourceDirs \cup UsedDirs]]

\* the session moves on and nothing else changes
Ask(next) ==
    /\ session' = next
    /\ UNCHANGED <<fs, dirs, last, recent, procs, disk, prompt>>

\* single_select(["workflow", "agent", "command", "quit"]); "" is a cancelled prompt
AnswerType(answer) ==
    /\ session.at = "type"
    /\ Ask(IF answer = "quit"
           THEN [session EXCEPT !.at = "exited"]
           ELSE [session EXCEPT !.at = "action", !.ext_type = answer])

\* the choices of the action prompt
Actions(ext_type) ==
    IF ext_type = "workflow"
    THEN {"list", "install", "info", "quit"}
    ELSE {"list", "install", "uninstall", "quit"}

\* single_select(actions), and for install the choice of the selection mode
AnswerAction(answer) ==
    LET extensions == SortedAvailable(World, session.ext_type)
        s == [session EXCEPT !.action = answer]
    IN  /\ session.at = "action"
        /\ answer \in Actions(session.ext_type) \cup {""}
        /\ Ask(CASE answer = "quit" -> [s EXCEPT !.at = "exited"]
                 [] answer = "list" -> [s EXCEPT !.at = "list_type"]
                 [] answer = "info" ->
                       IF extensions = <<>> THEN [s EXCEPT !.at = "exited"]
                       ELSE [s EXCEPT !.at = "select_info"]
                 [] answer = "install" ->
                       IF extensions = <<>> THEN [s EXCEPT !.at = "exited"]
                       ELSE IF session.ext_type = "workflow" \/ Len(extensions) <= 3
                       THEN [s EXCEPT !.at = "select_one", !.mode = "single"]
                       ELSE [s EXCEPT !.at = "mode"]
                 [] answer = "uninstall" -> [s EXCEPT !.at = "level"]
                 [] OTHER -> [s EXCEPT !.at = "continue"])

\* single_select(["available", "installed"]): anything but "available" lists installed
AnswerListType(answer) ==
    /\ session.at = "list_type"
    /\ Ask(IF answer = "available"
           THEN [session EXCEPT !.at = "continue"]
           ELSE [session EXCEPT !.at = "level"])

\* workflow_info(selected) when something was selected: Exit(1) without a definition
AnswerSelectInfo(answer) ==
    /\ session.at = "select_info"
    /\ answer \in Range(SortedAvailable(World, "workflow")) \cup {""}
    /\ Ask(IF answer # "" /\ ~load_workflow_definition(World, answer).loaded
           THEN [session EXCEPT !.at = "exited", !.selected = answer]
           ELSE [session EXCEPT !.at = "continue", !.selected = answer])

\* single_select(["multiple (select many)", "single (select one)"])
AnswerMode(answer) ==
    /\ session.at = "mode"
    /\ Ask(IF answer = "multiple (select many)"
           THEN [session EXCEPT !.at = "select_many", !.mode = "multiple"]
           ELSE [session EXCEPT !.at = "select_one", !.mode = "single"])

\* multi_select(sorted(extensions)); nothing selected ends the session
AnswerSelectMany(selected_items) ==
    /\ session.at = "select_many"
    /\ selected_items \in Selections(SortedAvailable(World, session.ext_type))
    /\ Ask(IF selected_items = <<>>
           THEN [session EXCEPT !.at = "exited"]
           ELSE [session EXCEPT !.at = "level", !.picked = selected_items,
                                !.items = selected_items])

\* single_select(sorted(extensions)); a cancelled prompt ends the session
AnswerSelectOne(answer) ==
    /\ session.at = "select_one"
    /\ answer \in Range(SortedAvailable(World, session.ext_type)) \cup {""}
    /\ Ask(IF answer = ""
           THEN [session EXCEPT !.at = "exited"]
           ELSE [session EXCEPT !.at = "level", !.selected = answer])

\* existing_items: the selected items check_extension_exists finds installed
ExistingItems(s) ==
    SelectSeq(s.items,
              LAMBDA item : check_extension_exists(World, s.ext_type, item, s.project))

\* the code between the choice of the level and the next prompt, s.project chosen
AfterLevel(s) ==
    IF s.action = "list"
    THEN [s EXCEPT !.at = "continue"]
    ELSE IF s.action = "uninstall"
    THEN IF InstalledNames(World, s.ext_type, s.project) = {}
         THEN [s EXCEPT !.at = "exited"]
         ELSE [s EXCEPT !.at = "select_installed"]
    ELSE IF s.mode = "multiple"
    THEN IF ExistingItems(s) # <<>>
         THEN [s EXCEPT !.at = "overwrite_all"]
         ELSE [s EXCEPT !.at = "confirm_multi", !.force = FALSE]
    ELSE IF /\ s.ext_type # "workflow"
            /\ check_extension_exists(World, s.ext_type, s.selected, s.project)
    THEN [s EXCEPT !.at = "overwrite_one"]
    ELSE [s EXCEPT !.at = "confirm_one"]

\* single_select(["user-level (~/.claude)", "project-level"]): anything but
\* user-level, a cancelled prompt included, goes on to the project prompt
AnswerLevel(answer) ==
    /\ session.at = "level"
    /\ Ask(IF answer = "user-level (~/.claude)"
           THEN AfterLevel([session EXCEPT !.project = None])
           ELSE [session EXCEPT !.at = "project"])

\* what the project prompt offers; a cancelled prompt asks for a custom path
ProjectChoices ==
    {"claude project", "current directory (.)", "parent directory (..)",
     "enter custom path", "separator", ""}

\* single_select(project_choices): a separator line ends the session, every other
\* choice names a directory, path
AnswerProject(choice, path) ==
    /\ session.at = "project"
    /\ Ask(IF choice = "separator"
           THEN [session EXCEPT !.at = "exited"]
           ELSE AfterLevel([session EXCEPT !.project = path]))

\* single_select(["Overwrite all existing", "Skip existing", "Cancel installation"]):
\* anything but cancel and skip, a cancelled prompt included, sets force
AnswerOverwriteAll(answer) ==
    LET s == [session EXCEPT !.overwrite = answer]
        existing == ExistingItems(session)
        kept == SelectSeq(session.items, LAMBDA item : item \notin Range(existing))
    IN  /\ session.at = "overwrite_all"
        /\ Ask(IF answer = "Cancel installation"
               THEN [s EXCEPT !.at = "exited"]
               ELSE IF answer = "Skip existing"
               THEN IF kept = <<>>
                    THEN [s EXCEPT !.at = "exited", !.items = kept]
                    ELSE [s EXCEPT !.at = "confirm_multi", !.items = kept, !.force = FALSE]
               ELSE [s EXCEPT !.at = "confirm_multi", !.force = TRUE])

\* single_select(["Yes, proceed", "No, cancel"]) and install_multiple_extensions
AnswerConfirmMulti(answer) ==
    LET s == [session EXCEPT !.at = "continue", !.confirm = answer]
        r == install_multiple_extensions(World, s.ext_type, s.items, s.project,
                                         s.force, NoErr)
    IN  /\ session.at = "confirm_multi"
        /\ IF answer = "Yes, proceed"
           THEN /\ session' = s
                /\ fs' = r.fs
                /\ dirs' = r.dirs
                /\ last' = [Call("install_multiple_extensions", s.ext_type, s.items,
                                 s.project, s.force, NoErr)
                               EXCEPT !.successful = r.successful, !.failed = r.failed,
                                      !.msgs = r.msgs, !.wrote = r.wrote]
                /\ recent' = recent \cup {<<s.ext_type, r.successful[i], s.project>> :
                                             i \in 1..Len(r.successful)}
                /\ UNCHANGED <<procs, disk, prompt>>
           ELSE Ask(s)

\* install_extension(ext_type, selected, project, force) inside
\* `try: ... except typer.Exit: pass`: an Exit goes on to the continue prompt,
\* any other exception ends interactive()
InstallSelected(s, at) ==
    LET oserr == [name |-> s.selected, at |-> at]
        r == install_extension(World, s.ext_type, s.selected, s.project, s.force, oserr)
    IN  /\ session' = [s EXCEPT !.at = IF r.raised = "OSError" THEN "crashed"
                                       ELSE "continue"]
        /\ fs' = r.fs
        /\ dirs' = r.dirs
        /\ last' = [Call("install_extension", s.ext_type, <<s.selected>>, s.project,
                         s.force, oserr)
                       EXCEPT !.raised = r.raised, !.msg = r.msg]
        /\ recent' = IF r.raised = "none"
                     THEN recent \cup {<<s.ext_type, s.selected, s.project>>}
                     ELSE recent
        /\ UNCHANGED <<procs, disk, prompt>>

\* (variant: the workflow is installed with force)
InstallSelectedWorkflowForced(s) ==
    LET r == install_workflow(World, s.selected, s.project, TRUE, NoErr)
    IN  /\ session' = [s EXCEPT !.at = "continue"]
        /\ fs' = r.fs
        /\ dirs' = r.dirs
        /\ last' = [Call("install_workflow", "workflow", <<s.selected>>, s.project,
                         TRUE, NoErr)
                       EXCEPT !.components = r.installed_components,
                              !.all_success = r.all_success,
                              !.msg = IF r.found THEN "" ELSE "not found"]
        /\ UNCHANGED <<recent, procs, disk, prompt>>

\* install_workflow(selected, project, force=force_install)
InstallSelectedWorkflow(s) ==
    LET r == install_workflow(World, s.selected, s.project, s.force, NoErr)
        target_path ==
            workflow_target_path(load_workflow_definition(World, s.selected), s.project)
    IN  /\ session' = [s EXCEPT !.at = "continue"]
        /\ fs' = r.fs
        /\ dirs' = r.dirs
        /\ last' = [Call("install_workflow", "workflow", <<s.selected>>, s.project,
                         s.force, NoErr)
                       EXCEPT !.components = r.installed_components,
                              !.all_success = r.all_success,
                              !.msg = IF r.found THEN "" ELSE "not found"]
        /\ recent' = recent \cup {<<r.installed_components[i][1],
                                      r.installed_components[i][2], target_path>> :
                                     i \in 1..Len(r.installed_components)}
        /\ UNCHANGED <<procs, disk, prompt>>

\* single_select(["Overwrite existing", "Cancel installation"]): anything but
\* cancel, a cancelled prompt included, installs with force and asks no more
AnswerOverwriteOne(answer, at) ==
    /\ session.at = "overwrite_one"
    /\ IF answer = "Cancel installation"
       THEN at = "none" /\ Ask([session EXCEPT !.at = "exited", !.overwrite = answer])
       ELSE InstallSelected([session EXCEPT !.overwrite = answer, !.force = TRUE], at)

\* single_select(["Yes, proceed", "No, cancel"]) and the installation
AnswerConfirmOne(answer, at) ==
    LET s == [session EXCEPT !.confirm = answer, !.force = FALSE]
    IN  /\ session.at = "confirm_one"
        /\ IF answer # "Yes, proceed"
           THEN at = "none" /\ Ask([s EXCEPT !.at = "exited"])
           ELSE IF session.ext_type = "workflow"
           THEN at = "none" /\ InstallSelectedWorkflow(s)
           ELSE InstallSelected(s, at)

\* single_select(installed_names); a cancelled prompt ends the session
AnswerSelectInstalled(answer) ==
    /\ session.at = "select_installed"
    /\ answer \in InstalledNames(World, session.ext_type, session.project) \cup {""}
    /\ Ask(IF answer = ""
           THEN [session EXCEPT !.at = "exited"]
           ELSE [session EXCEPT !.at = "confirm_uninstall", !.selected = answer])

\* (variant: only "No, cancel" keeps the file; a cancelled prompt uninstalls)
AnswerConfirmUninstallUnlessNo(answer, at) ==
    LET s == [session EXCEPT !.confirm = answer]
        oserr == [name |-> s.selected, at |-> at]
        r == uninstall_extension(World, s.ext_type, s.selected, s.project, oserr)
    IN  /\ session.at = "confirm_uninstall"
        /\ IF answer # "No, cancel"
           THEN /\ session' = [s EXCEPT !.at = IF r.raised = "OSError" THEN "crashed"
                                               ELSE "continue"]
                /\ fs' = r.fs
                /\ dirs' = r.dirs
                /\ last' = [Call("uninstall_extension", s.ext_type, <<s.selected>>,
                                 s.project, FALSE, oserr)
                               EXCEPT !.raised = r.raised, !.msg = r.msg]
                /\ UNCHANGED <<recent, procs, disk, prompt>>
           ELSE at = "none" /\ Ask([s EXCEPT !.at = "continue"])

\* single_select(["Yes, uninstall", "No, cancel"]) and uninstall_extension inside
\* `try: ... except typer.Exit: pass`
AnswerConfirmUninstall(answer, at) ==
    LET s == [session EXCEPT !.confirm = answer]
        oserr == [name |-> s.selected, at |-> at]
        r == uninstall_extension(World, s.ext_type, s.selected, s.project, oserr)
    IN  /\ session.at = "confirm_uninstall"
        /\ IF answer = "Yes, uninstall"
           THEN /\ session' = [s EXCEPT !.at = IF r.raised = "OSError" THEN "crashed"
                                               ELSE "continue"]
                /\ fs' = r.fs
                /\ dirs' = r.dirs
                /\ last' = [Call("uninstall_extension", s.ext_type, <<s.selected>>,
                                 s.project, FALSE, oserr)
                               EXCEPT !.raised = r.raised, !.msg = r.msg]
                /\ recent' = IF r.raised = "none"
                             THEN recent \ {<<s.ext_type, s.selected, s.project>>}
                             ELSE recent
                /\ UNCHANGED <<procs, disk, prompt>>
           ELSE at = "none" /\ Ask([s EXCEPT !.at = "continue"])

\* single_select(["Yes, continue", "No, exit"]): "Yes, continue" calls
\* interactive() again, with fresh local variables; anything else returns, and
\* the process ends
AnswerContinue(answer) ==
    /\ session.at = "continue"
    /\ IF answer = "Yes, continue"
       THEN /\ session.round < MaxRounds
            /\ session' = [NoSession EXCEPT !.at = "type", !.round = session.round + 1,
                                            !.pre = World]
       ELSE session' = [NoSession EXCEPT !.at = "done"]
    /\ last' = NoCall
    /\ UNCHANGED <<fs, dirs, recent, procs, disk, prompt>>

\* what a prompt may return besides one of its choices: "" when it is cancelled
Cancelled == ""

NextInteractive ==
    \/ \E a \in {"workflow", "agent", "command", "quit", Cancelled} : AnswerType(a)
    \/ \E a \in {"list", "install", "uninstall", "info", "quit", Cancelled} :
          AnswerAction(a)
    \/ \E a \in {"available", "installed", Cancelled} : AnswerListType(a)
    \/ \E a \in Range(Alphabetical) \cup {Cancelled} : AnswerSelectInfo(a)
    \/ \E a \in {"multiple (select many)", "single (select one)", Cancelled} :
          AnswerMode(a)
    \/ \E sel \in Selections(Alphabetical) : AnswerSelectMany(sel)
    \/ \E a \in Range(Alphabetical) \cup {Cancelled} : AnswerSelectOne(a)
    \/ \E a \in {"user-level (~/.claude)", "project-level", Cancelled} : AnswerLevel(a)
    \/ \E c \in ProjectChoices, p \in Projects : AnswerProject(c, p)
    \/ \E a \in {"Overwrite all existing", "Skip existing", "Cancel installation",
                 Cancelled} : AnswerOverwriteAll(a)
    \/ \E a \in {"Yes, proceed", "No, cancel", Cancelled} : AnswerConfirmMulti(a)
    \/ \E a \in {"Overwrite existing", "Cancel installation", Cancelled},
          at \in {"none", "mkdir", "copy"} : AnswerOverwriteOne(a, at)
    \/ \E a \in {"Yes, proceed", "No, cancel", Cancelled},
          at \in {"none", "mkdir", "copy"} : AnswerConfirmOne(a, at)
    \/ \E a \in Range(Alphabetical) \cup {Cancelled} : AnswerSelectInstalled(a)
    \/ \E a \in {"Yes, uninstall", "No, cancel", Cancelled},
          at \in {"none", "unlink"} : AnswerConfirmUninstall(a, at)
    \/ \E a \in {"Yes, continue", "No, exit", Cancelled} : AnswerContinue(a)

SpecInteractive == InitInteractive /\ [][NextInteractive]_vars

-----------------------------------------------------------------------------
(* get_claude_projects. A string is the sequence of its pieces: a word, or one of
   the characters "-", "/" and "." on its own; a path is the sequence of its
   components below the root, each component a string. *)

MaxEntries == 3

RECURSIVE split(_, _)
\* s.split(sep)
split(s, sep) ==
    IF \A k \in 1..Len(s) : s[k] # sep
    THEN <<s>>
    ELSE LET k == CHOOSE k \in 1..Len(s) : s[k] = sep /\ \A j \in 1..(k - 1) : s[j] # sep
         IN  <<SubSeq(s, 1, k - 1)>> \o split(SubSeq(s, k + 1, Len(s)), sep)

RECURSIVE join(_, _)
\* sep.join(list)
join(sep, list) ==
    IF list = <<>>
    THEN <<>>
    ELSE IF Len(list) = 1
    THEN list[1]
    ELSE list[1] \o <<sep>> \o join(sep, Tail(list))

\* the parts of list that are not the empty string (if part: ...)
NonEmpty(list) == SelectSeq(list, LAMBDA part : part # <<>>)

\* Path(s) of an absolute path string: its components
PathOf(s) == NonEmpty(split(s, "/"))

\* str(path)
str(path) == <<"/">> \o join("/", path)

\* path.exists(), and path.exists() and path.is_dir()
PathExists(d, path) == path \in d.dirs \cup d.files

PathIsDir(d, path) == path \in d.dirs

\* test_path of the pass with loop variable i
test_path(base_path, remaining, i) ==
    IF i = Len(remaining)
    THEN base_path \o NonEmpty(remaining)
    ELSE LET hyphenated == join("-", SubSeq(remaining, i, Len(remaining)))
         IN  base_path \o NonEmpty(SubSeq(remaining, 1, i - 1))
                 \o (IF hyphenated # <<>> THEN <<hyphenated>> ELSE <<>>)

\* found_path = None
NoPath == [found |-> FALSE, path |-> <<>>]

RECURSIVE found_path_joined_first(_, _, _, _)
\* (variant: the longest hyphen-joined tail is tried first, range(1, len + 1))
found_path_joined_first(d, base_path, remaining, i) ==
    LET k == Len(remaining) + 1 - i
    IN  IF i < 1
        THEN NoPath
        ELSE IF PathExists(d, test_path(base_path, remaining, k))
                /\ PathIsDir(d, test_path(base_path, remaining, k))
        THEN [found |-> TRUE, path |-> test_path(base_path, remaining, k)]
        ELSE found_path_joined_first(d, base_path, remaining, i - 1)

RECURSIVE found_path(_, _, _, _)
\* for i in range(len(remaining), 0, -1): the passes from i down to 1
found_path(d, base_path, remaining, i) ==
    IF i < 1
    THEN NoPath
    ELSE IF PathExists(d, test_path(base_path, remaining, i))
            /\ PathIsDir(d, test_path(base_path, remaining, i))
    THEN [found |-> TRUE, path |-> test_path(base_path, remaining, i)]
    ELSE found_path(d, base_path, remaining, i - 1)

\* actual_path of the entry called name
actual_path(d, name) ==
    LET encoded_name == IF name # <<>> /\ name[1] = "-" THEN Tail(name) ELSE name
        parts == split(encoded_name, "-")
        home_parts == split(str(d.home), "/")
    IN  IF parts[1] = <<"Users">> /\ Len(parts) > 2
        THEN IF Len(home_parts) > 2
             THEN LET actual_username == home_parts[3]
                      username_dot_parts == split(actual_username, ".")
                      username_end_idx == Len(username_dot_parts) + 1
                      base_path == <<<<"Users">>, actual_username>>
                      remaining == SubSeq(parts, username_end_idx + 1, Len(parts))
                      found == found_path(d, base_path, remaining, Len(remaining))
                  IN  IF found.found
                      THEN found.path
                      ELSE base_path \o NonEmpty(remaining)
             ELSE PathOf(<<"/">> \o join("/", parts))
        ELSE PathOf(<<"/">> \o join("/", parts))

\* list.index(x), counted from 1; 0 when x is not in list
IndexOf(list, x) ==
    IF \E k \in 1..Len(list) : list[k] = x
    THEN CHOOSE k \in 1..Len(list) : list[k] = x /\ \A j \in 1..(k - 1) : list[j] # x
    ELSE 0

\* project_name of actual_path
project_name(path) ==
    LET path_parts == split(str(path), "/")
        idx == IndexOf(path_parts, <<"projects">>)
    IN  IF idx > 0 /\ idx < Len(path_parts)
        THEN join("/", SubSeq(path_parts, idx + 1, Len(path_parts)))
        ELSE path_parts[Len(path_parts)]

RECURSIVE projects_appended(_, _, _)
\* the list projects after the entries order[i..] have been gone through
projects_appended(d, order, i) ==
    IF i > Len(order)
    THEN <<>>
    ELSE LET project_dir == order[i]
             path == actual_path(d, project_dir.name)
         IN  (IF project_dir.is_dir /\ PathExists(d, path) /\ PathIsDir(d, path)
              THEN << <<project_name(path), path>> >>
              ELSE <<>>)
             \o projects_appended(d, order, i + 1)

\* the characters of a word
Spell(piece) ==
    CASE piece = "Users" -> <<"U", "s", "e", "r", "s">>
      [] piece = "projects" -> <<"p", "r", "o", "j", "e", "c", "t", "s">>
      [] piece = "tmp" -> <<"t", "m", "p">>
      [] piece = "root" -> <<"r", "o", "o", "t">>
      [] OTHER -> <<piece>>

RECURSIVE Chars(_)
\* the characters of a string
Chars(s) == IF s = <<>> THEN <<>> ELSE Spell(s[1]) \o Chars(Tail(s))

\* the code point of a character
ord(ch) ==
    CASE ch = "-" -> 45 [] ch = "." -> 46 [] ch = "/" -> 47
      [] ch = "B" -> 66 [] ch = "U" -> 85
      [] ch = "a" -> 97 [] ch = "b" -> 98 [] ch = "c" -> 99 [] ch = "d" -> 100
      [] ch = "e" -> 101 [] ch = "j" -> 106 [] ch = "m" -> 109 [] ch = "o" -> 111
      [] ch = "p" -> 112 [] ch = "r" -> 114 [] ch = "s" -> 115 [] ch = "t" -> 116
      [] ch = "u" -> 117 [] ch = "x" -> 120 [] ch = "y" -> 121

\* s.lower(), on the characters of s
lower(chars) ==
    [k \in 1..Len(chars) |->
        CASE chars[k] = "B" -> "b" [] chars[k] = "C" -> "c" [] chars[k] = "U" -> "u"
          [] OTHER -> chars[k]]

\* a < b for two strings given by their characters
StrLess(a, b) ==
    \E k \in 1..Len(b) :
        /\ k - 1 <= Len(a)
        /\ \A j \in 1..(k - 1) : a[j] = b[j]
        /\ \/ k = Len(a) + 1
           \/ ord(a[k]) < ord(b[k])

\* list, of <<key, value>> pairs, with x put behind the last pair whose key is
\* not greater than x's
InsertByKey(list, x) ==
    LET before == SelectSeq(list, LAMBDA e : ~StrLess(x[1], e[1]))
        after == SelectSeq(list, LAMBDA e : StrLess(x[1], e[1]))
    IN  before \o <<x>> \o after

RECURSIVE sorted_by_key(_)
\* sorted(), a stable sort, on <<key, value>> pairs
sorted_by_key(keyed) ==
    IF keyed = <<>>
    THEN <<>>
    ELSE InsertByKey(sorted_by_key(SubSeq(keyed, 1, Len(keyed) - 1)), keyed[Len(keyed)])

\* (variant: sorted by the friendly name as it is, without lower())
sorted_case_sensitive(projects) ==
    LET keyed == [k \in 1..Len(projects) |-> <<Chars(projects[k][1]), projects[k]>>]
    IN  [k \in 1..Len(projects) |-> sorted_by_key(keyed)[k][2]]

\* sorted(projects, key=lambda x: x[0].lower())
sorted_projects(projects) ==
    LET keyed == [k \in 1..Len(projects) |-> <<lower(Chars(projects[k][1])), projects[k]>>]
    IN  [k \in 1..Len(projects) |-> sorted_by_key(keyed)[k][2]]

\* get_claude_projects() on disk d when iterdir yields the entries in order
get_claude_projects(d, order) ==
    IF ~d.projects_dir
    THEN <<>>
    ELSE sorted_projects(projects_appended(d, order, 1))

\* the home directories looked at: two on macOS, one with a dot in the user name,
\* and one elsewhere
Homes ==
    { << <<"Users">>, <<"u">> >>, << <<"Users">>, <<"c", ".", "d">> >>, << <<"root">> >> }

\* where the projects of the disk are
WorkDir(home) == IF home[1] = <<"Users">> THEN home ELSE << <<"Users">>, <<"u">> >>

\* the directories every disk has
AlwaysDirs(home) ==
    {<<>>, << <<"Users">> >>, << <<"tmp">> >>, << <<"tmp">>, <<"B">> >>, home, WorkDir(home)}

\* the directories a disk may have
OptionalDirs(home) ==
    { WorkDir(home) \o rest :
        rest \in { << <<"x">> >>, << <<"x">>, <<"y">> >>, << <<"x", "-", "y">> >>,
                   << <<"projects">> >>, << <<"projects">>, <<"B">> >>,
                   << <<"projects">>, <<"a">> >> } }
    \cup { << <<"tmp">>, <<"a">> >> }

\* the paths that may be files
OptionalFiles(home) == { WorkDir(home) \o << <<"x">>, <<"y">> >> }

\* the entries ~/.claude/projects may have
ProjectEntries ==
    { [name |-> <<"-", "Users", "-", "u", "-", "x", "-", "y">>, is_dir |-> TRUE],
      [name |-> <<"-", "Users", "-", "u", "-", "projects", "-", "B">>, is_dir |-> TRUE],
      [name |-> <<"-", "Users", "-", "u", "-", "projects", "-", "a">>, is_dir |-> TRUE],
      [name |-> <<"-", "tmp", "-", "a">>, is_dir |-> TRUE],
      [name |-> <<"Users", "-", "u", "-", "x">>, is_dir |-> TRUE],
      [name |-> <<"-", "tmp", "-", "B">>, is_dir |-> FALSE],
      [name |-> <<"-", "Users", "-", "c", "-", "d", "-", "x", "-", "y">>, is_dir |-> TRUE] }

InitProjects ==
    /\ fs = SourceTree
    /\ dirs = SourceDirs
    /\ last = NoCall
    /\ recent = {}
    /\ procs = NoProcs
    /\ session = NoSession
    /\ prompt = NoPrompt
    /\ \E home \in Homes :
       \E made \in SUBSET OptionalDirs(home), files \in SUBSET OptionalFiles(home),
          entries \in {E \in SUBSET ProjectEntries : Cardinality(E) <= MaxEntries},
          projects_dir \in BOOLEAN :
          /\ \A path \in made \cup files :
                SubSeq(path, 1, Len(path) - 1) \in AlwaysDirs(home) \cup made
          /\ made \cap files = {}
          /\ ~projects_dir => entries = {}
          /\ disk = [home |-> home, dirs |-> AlwaysDirs(home) \cup made, files |-> files,
                     projects_dir |-> projects_dir, projects |-> entries]

\* one call of get_claude_projects; iterdir yields the entries in any order
GetClaudeProjects ==
    /\ Idle
    /\ \E order \in Orders(disk.projects) :
          last' = [Call("get_claude_projects", None, <<>>, None, FALSE, NoErr)
                      EXCEPT !.listing = get_claude_projects(disk, order)]
    /\ UNCHANGED <<fs, dirs, recent, procs, session, disk, prompt>>

NextProjects ==
    \/ GetClaudeProjects
    \/ ProcessExit

SpecProjects == InitProjects /\ [][NextProjects]_vars

-----------------------------------------------------------------------------
(* _multi_select_numbered, the numbered fallback of multi_select. An input line
   is the sequence of its whitespace-separated tokens, as choice.split() gives
   them. *)

MaxLines == 3

\* the lists of items offered: sorted names, none twice
ItemLists ==
    {sorted(SomeOrder(S)) : S \in {T \in SUBSET {"a", "b", "c"} : Cardinality(T) \in 1..MaxNames}}

\* the tokens int() accepts, here the numbers from 0 to one past the longest list
NumberTokens == {ToString(n) : n \in 0..(MaxNames + 1)}

\* int(x)
int(x) == CHOOSE n \in 0..(MaxNames + 1) : ToString(n) = x

\* the lines typed at the prompt "Selection"
InputLines ==
    {<<>>}
    \cup {<<t>> : t \in {"c", "q", "a", "n", "C", "x"} \cup NumberTokens}
    \cup {<<s, t>> : s \in {"1", "x"}, t \in {"0", "1", "2", "x"}}

RECURSIVE toggle_add_only(_, _, _, _)
\* (variant: a number typed again does not deselect its item)
toggle_add_only(selected, items, numbers, k) ==
    IF k > Len(numbers)
    THEN selected
    ELSE IF 1 <= numbers[k] /\ numbers[k] <= Len(items)
    THEN toggle_add_only(selected \cup {items[numbers[k]]}, items, numbers, k + 1)
    ELSE toggle_add_only(selected, items, numbers, k + 1)

RECURSIVE toggle(_, _, _, _)
\* for num in numbers: selected after numbers[k..] have been gone through
toggle(selected, items, numbers, k) ==
    IF k > Len(numbers)
    THEN selected
    ELSE IF 1 <= numbers[k] /\ numbers[k] <= Len(items)
    THEN LET item == items[numbers[k]]
         IN  toggle(IF item \in selected THEN selected \ {item} ELSE selected \cup {item},
                    items, numbers, k + 1)
    ELSE toggle(selected, items, numbers, k + 1)

\* selected after a line that is neither 'c' nor 'q'
selected_after(selected, items, choice) ==
    IF choice = <<"a">>
    THEN Range(items)
    ELSE IF choice = <<"n">>
    THEN {}
    ELSE IF \E k \in 1..Len(choice) : choice[k] \notin NumberTokens
    THEN selected
    ELSE toggle(selected, items, [k \in 1..Len(choice) |-> int(choice[k])], 1)

InitPrompt ==
    /\ fs = SourceTree
    /\ dirs = SourceDirs
    /\ last = NoCall
    /\ recent = {}
    /\ procs = NoProcs
    /\ session = NoSession
    /\ disk = NoDisk
    /\ \E items \in ItemLists : prompt = [NoPrompt EXCEPT !.at = "asking", !.items = items]

\* one pass of the while loop: a line is read and acted on; list(selected) comes
\* in the order of a set
AnswerSelection(line) ==
    LET choice == lower(line)
    IN  /\ prompt.at = "asking"
        /\ Len(prompt.lines) < MaxLines
        /\ IF choice = <<"c">>
           THEN \E result \in Orders(prompt.selected) :
                   prompt' = [prompt EXCEPT !.at = "returned", !.lines = Append(@, line),
                                            !.result = result]
           ELSE IF choice = <<"q">>
           THEN prompt' = [prompt EXCEPT !.at = "returned", !.lines = Append(@, line),
                                         !.selected = {}, !.result = <<>>]
           ELSE prompt' = [prompt EXCEPT !.lines = Append(@, line),
                                         !.selected = selected_after(@, prompt.items, choice)]
        /\ UNCHANGED <<fs, dirs, last, recent, procs, session, disk>>

\* Ctrl-C or end of input at the prompt: Prompt.ask raises and nothing catches it
InterruptSelection ==
    /\ prompt.at = "asking"
    /\ prompt' = [prompt EXCEPT !.at = "raised"]
    /\ UNCHANGED <<fs, dirs, last, recent, procs, session, disk>>

NextPrompt ==
    \/ \E line \in InputLines : AnswerSelection(line)
    \/ InterruptSelection

SpecPrompt == InitPrompt /\ [][NextPrompt]_vars

-----------------------------------------------------------------------------
(* What the properties below read: the documented paths, and the last call *)

\* <level dir>/.claude/<type>s/<name>.md, user level when no project path is given
ExpectedPath(ext_type, name, project_path) ==
    [root |-> IF project_path = None THEN "~/.claude" ELSE project_path \o "/.claude",
     dir |-> IF ext_type = "agent" THEN "agents" ELSE "commands",
     stem |-> name, suffix |-> ".md"]

\* extensions/<type>s/<name>.md
SourcePath(ext_type, name) ==
    [root |-> "extensions",
     dir |-> IF ext_type = "agent" THEN "agents" ELSE "commands",
     stem |-> name, suffix |-> ".md"]

Before == last.pre.fs

LastTarget(i) == ExpectedPath(last.ext_type, last.names[i], last.project_path)

LastSource(i) == SourcePath(last.ext_type, last.names[i])

-----------------------------------------------------------------------------
(* Properties of install and uninstall *)

\* C1: an install_extension call for an agent or command whose source file
\* extensions/<type>s/<name>.md exists and whose target is absent (the filesystem
\* raising no error) returns normally, and afterwards the file
\* <level dir>/.claude/<type>s/<name>.md exists at the level the call named (user
\* level without a project path, that project otherwise) and holds exactly the
\* source file's content.
C1_InstallCopiesSource ==
    (/\ last.op = "install_extension"
     /\ LastSource(1) \in DOMAIN Before
     /\ LastTarget(1) \notin DOMAIN Before
     /\ last.oserr.at = "none")
    => /\ last.raised = "none"
       /\ last.msg = "Installed"
       /\ LastTarget(1) \in DOMAIN fs
       /\ fs[LastTarget(1)] = Before[LastSource(1)]
       /\ Parent(LastTarget(1)) \in dirs

\* a project-level install_extension of an absent target has just returned
C1_Witness ==
    /\ last.op = "install_extension"
    /\ last.project_path \in Projects
    /\ LastTarget(1) \notin DOMAIN Before
    /\ last.raised = "none"
    /\ fs[LastTarget(1)] = Before[LastSource(1)]

\* C2: an install without force of an item whose target file exists leaves the
\* target (indeed the whole filesystem, for install_extension) unchanged and fails:
\* install_extension raises Exit(1), saying "already installed" for an item that
\* has a source file; install_multiple_extensions puts the name in failed and not
\* in successful, with the message "Already installed".
C2_NoForceKeepsTarget ==
    /\ (/\ last.op = "install_extension"
        /\ ~last.force
        /\ LastTarget(1) \in DOMAIN Before)
       => /\ last.raised = "Exit(1)"
          /\ fs = Before
          /\ dirs = last.pre.dirs
          /\ (LastSource(1) \in DOMAIN Before => last.msg = "already installed")
    /\ (/\ last.op = "install_multiple_extensions"
        /\ ~last.force)
       => \A i \in 1..Len(last.names) :
             LastTarget(i) \in DOMAIN Before
             => /\ LastTarget(i) \in DOMAIN fs
                /\ fs[LastTarget(i)] = Before[LastTarget(i)]
                /\ last.names[i] \in Range(last.failed)
                /\ last.names[i] \notin Range(last.successful)
                /\ (LastSource(i) \in DOMAIN Before
                    => last.msgs[i] = "Already installed")

\* install_extension without force has just refused a target whose content is not
\* the source's
C2_Witness ==
    /\ last.op = "install_extension"
    /\ ~last.force
    /\ LastSource(1) \in DOMAIN Before
    /\ LastTarget(1) \in DOMAIN Before
    /\ Before[LastTarget(1)] # Before[LastSource(1)]
    /\ last.msg = "already installed"

\* C3: an install with force of an item whose target file exists (the item having
\* a source file, the filesystem raising no error) succeeds, and afterwards the
\* target holds the source's content, whatever it held before; in
\* install_multiple_extensions the name is in successful.
C3_ForceOverwrites ==
    /\ (/\ last.op = "install_extension"
        /\ last.force
        /\ LastTarget(1) \in DOMAIN Before
        /\ LastSource(1) \in DOMAIN Before
        /\ last.oserr.at = "none")
       => /\ last.raised = "none"
          /\ last.msg = "Installed"
          /\ fs[LastTarget(1)] = Before[LastSource(1)]
    /\ (/\ last.op = "install_multiple_extensions"
        /\ last.force)
       => \A i \in 1..Len(last.names) :
             (/\ LastTarget(i) \in DOMAIN Before
              /\ LastSource(i) \in DOMAIN Before
              /\ ErrAt(last.oserr, last.names[i]) = "none")
             => /\ fs[LastTarget(i)] = Before[LastSource(i)]
                /\ last.msgs[i] = "Installed successfully"
                /\ last.names[i] \in Range(last.successful)
                /\ last.names[i] \notin Range(last.failed)

\* a forced multi-install has just replaced a target that held other content
C3_Witness ==
    /\ last.op = "install_multiple_extensions"
    /\ last.force
    /\ \E i \in 1..Len(last.names) :
          /\ LastTarget(i) \in DOMAIN Before
          /\ LastSource(i) \in DOMAIN Before
          /\ Before[LastTarget(i)] # Before[LastSource(i)]
          /\ fs[LastTarget(i)] = Before[LastSource(i)]

\* C4: uninstall_extension of a (type, name) with no file at the chosen level
\* raises Exit(1) saying "not found", and the filesystem is as before: the same
\* files with the same contents, the same directories, at every level.
C4_UninstallMissing ==
    (/\ last.op = "uninstall_extension"
     /\ LastTarget(1) \notin DOMAIN Before)
    => /\ last.raised = "Exit(1)"
       /\ last.msg = "not found"
       /\ fs = Before
       /\ dirs = last.pre.dirs

\* a project-level uninstall has just reported "not found" for a name that is
\* installed at user level
C4_Witness ==
    /\ last.op = "uninstall_extension"
    /\ last.project_path \in Projects
    /\ last.msg = "not found"
    /\ ExpectedPath(last.ext_type, last.names[1], None) \in DOMAIN fs

\* C5: uninstall_extension of a (type, name) installed at the chosen level (the
\* filesystem raising no error) returns normally saying "Uninstalled"; afterwards
\* <level dir>/.claude/<type>s/<name>.md does not exist, every other file exists
\* with the content it had, and no directory is removed.
C5_UninstallRemovesExactlyTarget ==
    (/\ last.op = "uninstall_extension"
     /\ LastTarget(1) \in DOMAIN Before
     /\ last.oserr.at = "none")
    => /\ last.raised = "none"
       /\ last.msg = "Uninstalled"
       /\ LastTarget(1) \notin DOMAIN fs
       /\ DOMAIN fs = DOMAIN Before \ {LastTarget(1)}
       /\ \A q \in DOMAIN fs : fs[q] = Before[q]
       /\ dirs = last.pre.dirs

\* an uninstall has just succeeded in a directory that holds another installed file,
\* while the same name stays installed as the other type
C5_Witness ==
    /\ last.op = "uninstall_extension"
    /\ last.raised = "none"
    /\ \E q \in DOMAIN fs :
          /\ Parent(q) = Parent(LastTarget(1))
          /\ q.suffix = ".md"
          /\ q.stem \in Names
    /\ \E t \in ExtTypes :
          /\ t # last.ext_type
          /\ ExpectedPath(t, last.names[1], last.project_path) \in DOMAIN fs

-----------------------------------------------------------------------------
(* Properties of listing *)

\* the alphabetical order of the stems that occur
StemOrder == <<"a", "b", "drafts", "old", "wd", "wp", "wu", "wx">>

StemRank(stem) == CHOOSE i \in 1..Len(StemOrder) : StemOrder[i] = stem

IsSorted(stems) ==
    \A i, j \in 1..Len(stems) : i < j => StemRank(stems[i]) < StemRank(stems[j])

\* the stems of the files of directory type_dir with one of the suffixes
StemsIn(type_dir, suffixes) ==
    {q.stem : q \in {e \in DOMAIN fs : /\ Parent(e) = type_dir
                                        /\ fs[e] # DirMark
                                        /\ e.suffix \in suffixes}}

ListedDir ==
    IF last.op = "list_available"
    THEN [root |-> "extensions", dir |-> last.ext_type \o "s"]
    ELSE Parent(ExpectedPath(last.ext_type, "a", last.project_path))

ListedSuffixes ==
    IF last.op = "list_available" /\ last.ext_type = "workflow"
    THEN {".yaml", ".yml"}
    ELSE {".md"}

ListedStems ==
    IF last.op = "list_available"
    THEN last.listing
    ELSE [i \in 1..Len(last.listing) |-> last.listing[i][1]]

\* C6: list_available and list_installed return exactly the stems of the .md (for
\* workflows .yaml/.yml) files of the directory, each stem once, in sorted order
\* whatever order the directory is iterated in.
C6_ListingSortedExact ==
    last.op \in {"list_available", "list_installed"}
    => /\ Range(ListedStems) = StemsIn(ListedDir, ListedSuffixes)
       /\ Len(ListedStems) = Cardinality(StemsIn(ListedDir, ListedSuffixes))
       /\ IsSorted(ListedStems)

\* C7: starting from empty install directories, in every state and for every type
\* and level, whatever list_installed(type, level) may return names exactly the
\* names n whose most recent successful operation on (type, n, level) was an
\* install, each once; so nothing installed at another level or as another type
\* is listed.
C7_ListingMatchesHistory ==
    \A t \in ExtTypes, p \in ProjectArgs :
       \A listing \in InstalledListings(World, t, p) :
          /\ {listing[i][1] : i \in 1..Len(listing)} = {n \in Names : <<t, n, p>> \in recent}
          /\ Len(listing) = Cardinality({n \in Names : <<t, n, p>> \in recent})
          /\ \A i \in 1..Len(listing) : listing[i][2] = ExpectedPath(t, listing[i][1], p)

\* list_installed has just listed a level after an install there and an uninstall
\* of an item that stays installed at the other level
C7_Witness ==
    /\ last.op = "list_installed"
    /\ Len(last.listing) = 1
    /\ \E n \in Names :
          /\ ExpectedPath(last.ext_type, n, last.project_path) \notin DOMAIN fs
          /\ \E p \in ProjectArgs : <<last.ext_type, n, p>> \in recent
    /\ \E t \in ExtTypes, n \in Names :
          t # last.ext_type /\ <<t, n, last.project_path>> \in recent

-----------------------------------------------------------------------------
(* Properties of install_workflow and install_multiple_extensions *)

\* C8: an installation meant for project level but given no project path installs
\* nothing: install_workflow of a workflow whose level is not 'user', called with
\* project_path = None, fails, reports no installed component and leaves the
\* filesystem, the user-level directory included, as it was.
C8_ProjectLevelNeedsPath ==
    (/\ last.op = "install_workflow"
     /\ last.project_path = None
     /\ load_workflow_definition(last.pre, last.names[1]).loaded
     /\ load_workflow_definition(last.pre, last.names[1]).level # "user")
    => /\ ~last.all_success
       /\ last.components = <<>>
       /\ fs = Before
       /\ dirs = last.pre.dirs

RECURSIVE Pick(_, _, _)
\* the subsequence of s at the indices in S, from index i on
Pick(s, S, i) ==
    IF i > Len(s) THEN <<>>
    ELSE (IF i \in S THEN <<s[i]>> ELSE <<>>) \o Pick(s, S, i + 1)

\* the two lists split names: each occurrence goes to exactly one, in order
SplitsNames ==
    \E S \in SUBSET (1..Len(last.names)) :
       /\ last.successful = Pick(last.names, S, 1)
       /\ last.failed = Pick(last.names, (1..Len(last.names)) \ S, 1)

\* a name is in successful exactly when this call wrote its target
SuccessfulIffWrote ==
    \A i \in 1..Len(last.names) :
       /\ last.names[i] \in Range(last.successful) <=> LastTarget(i) \in last.wrote
       /\ LastTarget(i) \in last.wrote
          => LastTarget(i) \in DOMAIN fs /\ fs[LastTarget(i)] = Before[LastSource(i)]
       /\ LastTarget(i) \notin last.wrote
          => /\ LastTarget(i) \in DOMAIN fs <=> LastTarget(i) \in DOMAIN Before
             /\ LastTarget(i) \in DOMAIN fs => fs[LastTarget(i)] = Before[LastTarget(i)]

AllInstallable ==
    \A i \in 1..Len(last.names) :
       LastSource(i) \in DOMAIN Before /\ LastTarget(i) \notin DOMAIN Before

PairwiseDistinct(s) == \A i, j \in 1..Len(s) : s[i] = s[j] => i = j

\* C9 as stated: the lists split names in order, a name is in successful exactly
\* when the call wrote its target, and when all sources exist and no target exists
\* (the filesystem raising no error) successful = names and failed is empty.
C9_AllInstallableAllSucceed ==
    last.op = "install_multiple_extensions"
    => /\ SplitsNames
       /\ SuccessfulIffWrote
       /\ (AllInstallable /\ last.oserr = NoErr)
          => last.successful = last.names /\ last.failed = <<>>

\* C9 amended: as C9, the last part for lists that name no item twice or calls
\* with force: a second occurrence of a name without force finds the target its
\* first occurrence wrote and fails as already installed.
C9_SplitAndDistinctAllSucceed ==
    last.op = "install_multiple_extensions"
    => /\ SplitsNames
       /\ SuccessfulIffWrote
       /\ (/\ AllInstallable
           /\ last.oserr = NoErr
           /\ (PairwiseDistinct(last.names) \/ last.force))
          => last.successful = last.names /\ last.failed = <<>>

\* a multi-install of two different installable names has just installed both
C9_Witness ==
    /\ last.op = "install_multiple_extensions"
    /\ Len(last.names) = 2
    /\ PairwiseDistinct(last.names)
    /\ AllInstallable
    /\ last.successful = last.names
    /\ last.wrote = {LastTarget(1), LastTarget(2)}

\* what the loop reports for item i, from the filesystem before the call and the
\* items before it
Verdict(i) ==
    IF LastSource(i) \notin DOMAIN Before
    THEN "Not found"
    ELSE IF /\ ~last.force
            /\ \/ LastTarget(i) \in DOMAIN Before
               \/ \E j \in 1..(i - 1) :
                     /\ last.names[j] = last.names[i]
                     /\ last.msgs[j] = "Installed successfully"
    THEN "Already installed"
    ELSE IF ErrAt(last.oserr, last.names[i]) # "none"
    THEN "Failed"
    ELSE "Installed successfully"

\* C10: in install_multiple_extensions every item of the list is attempted and
\* gets its own verdict (not found, already installed, failed on an exception,
\* installed), which no failure of another item changes; the call returns
\* normally, and every item reported installed is installed with the source's
\* content when the call returns, whatever failed before or after it.
C10_FailuresAreLocal ==
    last.op = "install_multiple_extensions"
    => /\ Len(last.msgs) = Len(last.names)
       /\ Len(last.successful) + Len(last.failed) = Len(last.names)
       /\ last.raised = "none"
       /\ \A i \in 1..Len(last.names) :
             /\ last.msgs[i] = Verdict(i)
             /\ last.msgs[i] = "Installed successfully"
                => /\ LastTarget(i) \in DOMAIN fs
                   /\ fs[LastTarget(i)] = Before[LastSource(i)]
                   /\ last.names[i] \in Range(last.successful)
             /\ last.msgs[i] # "Installed successfully"
                => last.names[i] \in Range(last.failed)

\* a multi-install has just installed its second item after its first raised
C10_Witness ==
    /\ last.op = "install_multiple_extensions"
    /\ last.msgs = <<"Failed", "Installed successfully">>
    /\ LastTarget(2) \notin DOMAIN Before
    /\ LastTarget(2) \in DOMAIN fs

-----------------------------------------------------------------------------
(* Properties of failures and of what an operation may touch *)

InstallOps == {"install_extension", "install_multiple_extensions", "install_workflow"}

\* C11: a filesystem exception raised while installing never leaves an install
\* call as an uncaught exception: the single-item install_extension of the
\* command line, the multi-install and the workflow install all end either
\* normally or with the exit the program raises itself.
C11_FilesystemErrorsSurfaced ==
    last.op \in InstallOps => last.raised \in {"none", "Exit(1)"}

\* <level dir>/.claude/<type>s
ExpectedDir(ext_type, project_path) ==
    [root |-> IF project_path = None THEN "~/.claude" ELSE project_path \o "/.claude",
     dir |-> IF ext_type = "agent" THEN "agents" ELSE "commands"]

Untouched == fs = Before /\ dirs = last.pre.dirs

\* C12: an install checks that the source exists, then that the target is absent
\* or force is set, then makes the target directory, then copies. So a name
\* without a source is reported "not found" whether or not its target exists and
\* whether or not force is set, no directory is made for it and its target stays
\* as it was; an existing target without force is reported before any directory
\* is made or any filesystem error can occur; and a copy that fails leaves the
\* directory made and no file written.
C12_ChecksInOrder ==
    /\ last.op = "install_extension"
       => /\ LastSource(1) \notin DOMAIN Before
             => /\ last.raised = "Exit(1)" /\ last.msg = "not found"
                /\ Untouched
          /\ (/\ LastSource(1) \in DOMAIN Before
              /\ LastTarget(1) \in DOMAIN Before
              /\ ~last.force)
             => /\ last.raised = "Exit(1)" /\ last.msg = "already installed"
                /\ Untouched
          /\ (last.raised = "OSError" /\ last.oserr.at = "mkdir") => Untouched
          /\ (last.raised = "OSError" /\ last.oserr.at = "copy")
             => /\ fs = Before
                /\ dirs = last.pre.dirs
                          \cup {ExpectedDir(last.ext_type, last.project_path)}
    /\ last.op = "install_multiple_extensions"
       => /\ \A i \in 1..Len(last.names) :
                LastSource(i) \notin DOMAIN Before
                => /\ last.msgs[i] = "Not found"
                   /\ last.names[i] \in Range(last.failed)
                   /\ LastTarget(i) \in DOMAIN fs <=> LastTarget(i) \in DOMAIN Before
                   /\ LastTarget(i) \in DOMAIN fs
                      => fs[LastTarget(i)] = Before[LastTarget(i)]
          /\ (\A i \in 1..Len(last.names) : LastSource(i) \notin DOMAIN Before)
             => Untouched

\* a forced install of a name that has a target but no source was refused
C12_Witness ==
    /\ last.op = "install_extension"
    /\ last.force
    /\ LastSource(1) \notin DOMAIN Before
    /\ LastTarget(1) \in DOMAIN Before
    /\ last.msg = "not found"
    /\ fs[LastTarget(1)] = Before[LastTarget(1)]

\* the files of a tree that lie under extensions/
UnderExtensions(tree) == {p \in DOMAIN tree : p.root = "extensions"}

\* C13: no operation creates, changes or deletes anything under extensions/: in
\* every reachable state the source directory holds the files, with the contents,
\* and the directories it held at the start.
C13_SourceReadOnly ==
    /\ UnderExtensions(fs) = UnderExtensions(SourceTree)
    /\ \A p \in UnderExtensions(fs) : fs[p] = SourceTree[p]
    /\ {d \in dirs : d.root = "extensions"} = SourceDirs

\* an extension was installed and has just been uninstalled again; its source is there
C13_Witness ==
    /\ last.op = "uninstall_extension"
    /\ last.raised = "none"
    /\ LastSource(1) \in DOMAIN fs
    /\ Before[LastTarget(1)] = fs[LastSource(1)]
    /\ LastTarget(1) \notin DOMAIN fs

\* C14: an install or uninstall of (type, name) at one level touches only
\* <that level>/.claude/<type>s/<name>.md: every other file (the other type under
\* the same name, other names, the same name at the user level, in this project
\* or in another project) is there afterwards exactly if it was there before,
\* with the same content, and the only directory that may appear is
\* <that level>/.claude/<type>s.
C14_OnlyTargetTouched ==
    last.op \in {"install_extension", "uninstall_extension"}
    => /\ \A q \in (DOMAIN Before \cup DOMAIN fs) \ {LastTarget(1)} :
             /\ q \in DOMAIN Before
             /\ q \in DOMAIN fs
             /\ fs[q] = Before[q]
       /\ last.pre.dirs \subseteq dirs
       /\ dirs \ last.pre.dirs \subseteq {ExpectedDir(last.ext_type, last.project_path)}

\* an extension installed at all three levels, next to the other type of the same
\* name and to another name, has just been uninstalled from project p1 only
C14_Witness ==
    /\ last.op = "uninstall_extension"
    /\ last.raised = "none"
    /\ last.project_path = "p1"
    /\ LastTarget(1) \notin DOMAIN fs
    /\ ExpectedPath(last.ext_type, last.names[1], None) \in DOMAIN fs
    /\ ExpectedPath(last.ext_type, last.names[1], "p2") \in DOMAIN fs
    /\ \E t \in ExtTypes \ {last.ext_type} :
          ExpectedPath(t, last.names[1], "p1") \in DOMAIN fs
    /\ \E n \in Names \ {last.names[1]} :
          ExpectedPath(last.ext_type, n, "p1") \in DOMAIN fs

-----------------------------------------------------------------------------
(* Properties of install_workflow *)

\* the definition the last install_workflow call loaded
LastDef == load_workflow_definition(last.pre, last.names[1])

\* the components the definition names: main command, agents, helper commands
NamedComponents ==
    LET main == IF LastDef.command = None THEN <<>> ELSE << LastDef.command >>
        n_main == Len(main)
        n_agents == Len(LastDef.agents)
        n_helpers == Len(LastDef.helper_commands)
    IN  [i \in 1..(n_main + n_agents + n_helpers) |->
            IF i <= n_main THEN <<"command", main[i]>>
            ELSE IF i <= n_main + n_agents THEN <<"agent", LastDef.agents[i - n_main]>>
            ELSE <<"command", LastDef.helper_commands[i - n_main - n_agents]>>]

\* the level the definition sends the components to
LastLevel == IF LastDef.level = "user" THEN None ELSE last.project_path

ComponentTarget(i) == ExpectedPath(NamedComponents[i][1], NamedComponents[i][2], LastLevel)

ComponentSource(i) == SourcePath(NamedComponents[i][1], NamedComponents[i][2])

\* every named component has a source and none is installed at the level yet
AllComponentsInstallable ==
    /\ last.op = "install_workflow"
    /\ LastDef.loaded
    /\ last.oserr = NoErr
    /\ \A i \in 1..Len(NamedComponents) :
          /\ ComponentSource(i) \in DOMAIN Before
          /\ ComponentTarget(i) \notin DOMAIN Before

AllComponentsInstalled ==
    /\ last.all_success
    /\ last.components = NamedComponents
    /\ \A i \in 1..Len(NamedComponents) :
          /\ ComponentTarget(i) \in DOMAIN fs
          /\ fs[ComponentTarget(i)] = Before[ComponentSource(i)]

\* C15 as stated: installing a workflow whose components all have source files
\* and none of which is installed yet installs all of them at one level and
\* returns success True with the components in the order main command, agents,
\* helper commands.
C15_WorkflowInstallsAll ==
    AllComponentsInstallable => AllComponentsInstalled

\* C15, amended: the same when, in addition, the definition names no component
\* twice or force is set.
C15_DistinctWorkflowInstallsAll ==
    (AllComponentsInstallable /\ (PairwiseDistinct(NamedComponents) \/ last.force))
    => AllComponentsInstalled

\* a workflow of three distinct components has just been installed whole, without force
C15_Witness ==
    /\ AllComponentsInstallable
    /\ ~last.force
    /\ Len(NamedComponents) = 3
    /\ PairwiseDistinct(NamedComponents)
    /\ last.all_success
    /\ last.components = NamedComponents

-----------------------------------------------------------------------------
(* Properties of two installs at once *)

SameInstall(i, j) ==
    /\ procs[i].ext_type = procs[j].ext_type
    /\ procs[i].name = procs[j].name
    /\ procs[i].project_path = procs[j].project_path

\* C16: of two install invocations without force for the same (type, name,
\* level), running at once with the existence check and the copy as separate
\* steps, at most one writes the target and the other, once it has ended,
\* reports "already installed"; and no install without force copies over a
\* target that exists.
C16_AtMostOneWrites ==
    /\ \A i, j \in RaceProcs :
          (i # j /\ SameInstall(i, j) /\ ~procs[i].force /\ ~procs[j].force)
          => /\ ~(procs[i].wrote /\ procs[j].wrote)
             /\ (procs[i].wrote /\ procs[j].pc = "done")
                => procs[j].msg = "already installed"
    /\ \A i \in RaceProcs : ~procs[i].force => ~procs[i].replaced

\* the invocation's target and source, by the documented layout
RaceTarget(i) == ExpectedPath(procs[i].ext_type, procs[i].name, procs[i].project_path)

RaceSource(i) == SourcePath(procs[i].ext_type, procs[i].name)

\* the files before either invocation started
RaceBefore == SourceTree @@ UsedTree

\* C16, amended: of two install invocations without force for the same (type,
\* name, level) running at once, one whose check comes after the other's copy
\* reports "already installed" and writes nothing, but both write when both
\* checks come before the first copy; the second copy then replaces the first
\* with the same bytes. A target that existed before both started is written by
\* neither and keeps its content, and a target either of them wrote holds the
\* source's content.
C16_LateCheckRefuses ==
    \A i, j \in RaceProcs :
       (i # j /\ SameInstall(i, j) /\ ~procs[i].force /\ ~procs[j].force)
       => /\ procs[i].late
             => /\ procs[i].pc = "done"
                /\ procs[i].msg = "already installed"
                /\ ~procs[i].wrote
          /\ procs[i].replaced => procs[j].wrote
          /\ procs[i].wrote => fs[RaceTarget(i)] = RaceBefore[RaceSource(i)]
          /\ RaceTarget(i) \in DOMAIN RaceBefore
             => /\ ~procs[i].wrote
                /\ fs[RaceTarget(i)] = RaceBefore[RaceTarget(i)]
                /\ procs[i].pc = "done"
                   => procs[i].msg \in {"already installed", "not found"}

\* both invocations passed the check before either copied, and both have written
C16_Witness ==
    /\ SameInstall("A", "B")
    /\ ~procs["A"].force /\ ~procs["B"].force
    /\ procs["A"].wrote /\ procs["B"].wrote
    /\ procs["B"].replaced
    /\ fs[RaceTarget("B")] = RaceBefore[RaceSource("B")]

\* the paths whose presence or content the last call changed
Changed ==
    {q \in DOMAIN Before \cup DOMAIN fs :
        q \notin DOMAIN Before \/ q \notin DOMAIN fs \/ fs[q] # Before[q]}

\* C17: install_workflow takes the level from the definition. With level 'user'
\* every component is installed under the user-level directory and the project
\* path passed is ignored; with any other level, or none, every component is
\* installed under the project path passed. Nothing outside that one level
\* changes, so all components of a call land at the same level.
C17_LevelFromDefinition ==
    (/\ last.op = "install_workflow"
     /\ LastDef.loaded
     /\ LastDef.level = "user" \/ last.project_path # None)
    => LET root == IF LastDef.level = "user" THEN "~/.claude"
                   ELSE last.project_path \o "/.claude"
       IN  /\ \A q \in Changed : q.root = root
           /\ \A d \in dirs \ last.pre.dirs : d.root = root
           /\ \A i \in 1..Len(last.components) :
                 LET target == [root |-> root,
                                dir |-> last.components[i][1] \o "s",
                                stem |-> last.components[i][2], suffix |-> ".md"]
                 IN  /\ target \in DOMAIN fs
                     /\ fs[target] = Before[SourcePath(last.components[i][1],
                                                       last.components[i][2])]

\* a user-level workflow called with a project path has installed its components
\* at the user level
C17_Witness ==
    /\ last.op = "install_workflow"
    /\ LastDef.level = "user"
    /\ last.project_path = "p1"
    /\ Len(last.components) >= 2
    /\ Changed # {}

\* what install_workflow does with component i, from the filesystem before the
\* call and the components before it
ComponentVerdict(i) ==
    IF ComponentSource(i) \notin DOMAIN Before
    THEN "skipped"
    ELSE IF /\ ~last.force
            /\ \/ ComponentTarget(i) \in DOMAIN Before
               \/ \E j \in 1..(i - 1) : NamedComponents[j] = NamedComponents[i]
    THEN "failed"
    ELSE IF ErrAt(last.oserr, NamedComponents[i][2]) # "none"
    THEN "failed"
    ELSE "installed"

InstalledIndices == {i \in 1..Len(NamedComponents) : ComponentVerdict(i) = "installed"}

\* C18: when a component of a workflow fails (its target exists and force is not
\* set, or the install raises), install_workflow still attempts every later
\* component and keeps what it wrote: it returns the components it installed, in
\* order, each of them in place with its source's content, and success False.
\* The command `workflow install` exits with status 1 exactly when success is
\* False and no component was installed.
C18_WorkflowKeepsGoing ==
    (last.op = "install_workflow" /\ LastDef.loaded)
    => /\ last.components = Pick(NamedComponents, InstalledIndices, 1)
       /\ \A i \in InstalledIndices :
             /\ ComponentTarget(i) \in DOMAIN fs
             /\ fs[ComponentTarget(i)] = Before[ComponentSource(i)]
       /\ (\E i \in 1..Len(NamedComponents) : ComponentVerdict(i) = "failed")
          => ~last.all_success
       /\ last.raised = "Exit(1)" <=> (~last.all_success /\ last.components = <<>>)
       /\ last.raised \in {"none", "Exit(1)"}

\* a workflow install went on after a failed component: a later one is installed
C18_Witness ==
    /\ last.op = "install_workflow"
    /\ LastDef.loaded
    /\ ~last.all_success
    /\ last.raised = "none"
    /\ \E i, j \in 1..Len(NamedComponents) :
          /\ i < j
          /\ ComponentVerdict(i) = "failed"
          /\ ComponentVerdict(j) = "installed"
          /\ ComponentTarget(j) \notin DOMAIN Before
          /\ ComponentTarget(j) \in DOMAIN fs

\* C19: whenever install_workflow returns success True, every component the
\* workflow definition names is installed at the target level, the components
\* whose source file is missing included.
C19_SuccessMeansComplete ==
    (last.op = "install_workflow" /\ last.all_success)
    => \A i \in 1..Len(NamedComponents) : ComponentTarget(i) \in DOMAIN fs

-----------------------------------------------------------------------------
(* Properties of interactive mode *)

\* the files that were there when this round of interactive() began and are not now
Gone == DOMAIN session.pre.fs \ DOMAIN fs

\* C20: in interactive mode a file is deleted only by the answer "Yes, uninstall"
\* to the confirmation, and then it is the file of the item selected, at the
\* level selected, and no other. While the confirmation has any other answer (the
\* default "No, cancel", a cancelled prompt, or no answer yet), and whenever the
\* session ends early at a prompt, files and directories are as they were when
\* the round began.
C20_DeleteNeedsYes ==
    session.at \notin {"off", "done"}
    => /\ Gone # {}
          => /\ session.action = "uninstall"
             /\ session.confirm = "Yes, uninstall"
             /\ Gone = {ExpectedPath(session.ext_type, session.selected, session.project)}
       /\ (session.action = "uninstall" /\ session.confirm # "Yes, uninstall")
          => (fs = session.pre.fs /\ dirs = session.pre.dirs)
       /\ session.at = "exited"
          => (fs = session.pre.fs /\ dirs = session.pre.dirs)

\* the user has confirmed the uninstall of one item and its file is gone
C20_Witness ==
    /\ session.at = "continue"
    /\ session.action = "uninstall"
    /\ session.confirm = "Yes, uninstall"
    /\ Gone = {ExpectedPath(session.ext_type, session.selected, session.project)}

\* files and directories are as they were when this round of interactive() began
RoundUntouched == fs = session.pre.fs /\ dirs = session.pre.dirs

\* C21: in interactive mode nothing is written unless the user answered
\* "Yes, proceed" to the install confirmation or chose an explicit overwrite
\* option; after quit, an empty selection, a separator line, "Cancel
\* installation" or "No, cancel" the filesystem is as it was.
C21_WriteNeedsConsent ==
    session.at \notin {"off", "done"}
    => /\ (session.action = "install" /\ ~RoundUntouched)
          => \/ session.confirm = "Yes, proceed"
             \/ session.overwrite \in {"Overwrite existing", "Overwrite all existing"}
       /\ session.at = "exited" => RoundUntouched
       /\ session.confirm = "No, cancel" => RoundUntouched
       /\ session.overwrite = "Cancel installation" => RoundUntouched

\* the items picked in the multi-select that were installed when the round began
PickedExisting ==
    SelectSeq(session.picked,
              LAMBDA item : ExpectedPath(session.ext_type, item, session.project)
                            \in DOMAIN session.pre.fs)

\* C22: in the interactive multi-select install with some picked items already
\* installed, "Skip existing" takes exactly those items out of the selection,
\* installs the rest without force and leaves the existing files as they were;
\* "Overwrite all existing" installs every picked item with force; "Cancel
\* installation" installs nothing; and a file that was installed when the round
\* began is written only after "Overwrite all existing".
C22_OverwriteOnlyWhenChosen ==
    (session.at \notin {"off", "done"} /\ session.mode = "multiple")
    => /\ (session.overwrite = "Skip existing" /\ last.op # "none")
          => /\ last.names = SelectSeq(session.picked,
                                       LAMBDA item : item \notin Range(PickedExisting))
             /\ ~last.force
             /\ \A q \in DOMAIN session.pre.fs :
                   q \in DOMAIN fs /\ fs[q] = session.pre.fs[q]
       /\ (session.overwrite = "Overwrite all existing" /\ last.op # "none")
          => (last.names = session.picked /\ last.force)
       /\ session.overwrite = "Cancel installation"
          => (last.op = "none" /\ RoundUntouched)
       /\ \A q \in last.wrote \cap DOMAIN session.pre.fs :
             session.overwrite = "Overwrite all existing"

C24_OperationsReachContinue ==
    session.at \notin {"off", "done"}
    => /\ last.op # "none" => session.at = "continue"
       /\ session.at = "type" => (last.op = "none" /\ RoundUntouched)
       /\ session.at # "crashed"
       /\ session.round \in 1..MaxRounds

\* what install_extension does from world w, set beside what
\* install_multiple_extensions does from w with the one-name list
SingleAgreesWithMultiple(w, ext_type, name, project_path, force) ==
    LET single == install_extension(w, ext_type, name, project_path, force, NoErr)
        multiple == install_multiple_extensions(w, ext_type, <<name>>, project_path, force, NoErr)
    IN  /\ multiple.fs = single.fs
        /\ multiple.dirs = single.dirs
        /\ single.raised \in {"none", "Exit(1)"}
        /\ single.raised = "none" => (multiple.successful = <<name>> /\ multiple.failed = <<>>)
        /\ single.raised = "Exit(1)" => (multiple.successful = <<>> /\ multiple.failed = <<name>>)

\* C25: with no filesystem exception, install_multiple_extensions(type, [name],
\* project, force) leaves the filesystem install_extension(type, name, project,
\* force) leaves, and name is in successful exactly when install_extension
\* returns; on failure install_extension raises Exit(1) and the multi-item
\* function returns with name in failed. Stated for every input on every
\* filesystem reached (between two calls), and for the one-name calls made.
C25_MultipleOfOneIsSingle ==
    /\ Idle
       => \A ext_type \in ExtTypes, name \in Names, project_path \in ProjectArgs,
             force \in BOOLEAN :
             SingleAgreesWithMultiple(World, ext_type, name, project_path, force)
    /\ (last.op = "install_multiple_extensions" /\ Len(last.names) = 1 /\ last.oserr = NoErr)
       => LET single == install_extension(last.pre, last.ext_type, last.names[1],
                                          last.project_path, last.force, NoErr)
          IN  /\ fs = single.fs /\ dirs = single.dirs
              /\ last.raised = "none"
              /\ (last.successful = last.names) = (single.raised = "none")
              /\ (last.failed = last.names) = (single.raised = "Exit(1)")

C25_Witness ==
    /\ last.op = "install_multiple_extensions" /\ Len(last.names) = 1 /\ last.oserr = NoErr
    /\ last.force /\ LastTarget(1) \in DOMAIN Before
    /\ last.successful = last.names
    /\ fs # Before
    /\ \E name \in Names :
          install_extension(World, last.ext_type, name, last.project_path, FALSE, NoErr).raised
              = "Exit(1)"

\* install, uninstall, uninstall again of one (type, name, level) from world w
\* whose target is absent
RoundTrip(w, ext_type, name, project_path, force) ==
    LET target == ExpectedPath(ext_type, name, project_path)
        installed == install_extension(w, ext_type, name, project_path, force, NoErr)
        removed == uninstall_extension(installed, ext_type, name, project_path, NoErr)
        again == uninstall_extension(removed, ext_type, name, project_path, NoErr)
    IN  (target \notin DOMAIN w.fs /\ installed.raised = "none")
        => /\ target \in DOMAIN installed.fs
           /\ removed.raised = "none"
           /\ removed.fs = w.fs
           /\ removed.dirs = w.dirs \cup {ExpectedDir(ext_type, project_path)}
           /\ again.raised = "Exit(1)" /\ again.msg = "not found"
           /\ again.fs = removed.fs /\ again.dirs = removed.dirs

\* install with force twice in a row, set beside install with force once
ForceTwice(w, ext_type, name, project_path) ==
    LET once == install_extension(w, ext_type, name, project_path, TRUE, NoErr)
        twice == install_extension(once, ext_type, name, project_path, TRUE, NoErr)
    IN  twice = once

\* C26: from a state where the target is absent, a successful install followed
\* by an uninstall of the same (type, name, level) gives back the files there
\* were (only the created directory remains) and a second uninstall reports
\* "not found"; installing with force twice gives the state installing with
\* force once gives. Stated for every input on every filesystem reached (between
\* two calls), and for the installs and uninstalls that were made.
C26_InstallUninstallRoundTrip ==
    /\ Idle
       => \A ext_type \in ExtTypes, name \in Names, project_path \in ProjectArgs :
             /\ \A force \in BOOLEAN : RoundTrip(World, ext_type, name, project_path, force)
             /\ ForceTwice(World, ext_type, name, project_path)
    /\ (last.op = "install_extension" /\ last.raised = "none" /\ LastTarget(1) \notin DOMAIN Before)
       => uninstall_extension(World, last.ext_type, last.names[1], last.project_path, NoErr).fs
              = Before
    /\ (last.op = "install_extension" /\ last.raised = "none" /\ last.force)
       => install_extension(World, last.ext_type, last.names[1], last.project_path, TRUE, NoErr)
              = Outcome(World, "none", "Installed")
    /\ (last.op = "uninstall_extension" /\ last.raised = "none")
       => uninstall_extension(World, last.ext_type, last.names[1], last.project_path, NoErr)
              = Outcome(World, "Exit(1)", "not found")

C26_Witness ==
    /\ last.op = "uninstall_extension" /\ last.raised = "none"
    /\ LastTarget(1) \in DOMAIN Before /\ LastSource(1) \in DOMAIN Before
    /\ Before[LastTarget(1)] = Before[LastSource(1)]
    /\ LastTarget(1) \notin DOMAIN fs
    /\ ExpectedDir(last.ext_type, last.project_path) \in dirs
    /\ \E name \in Names :
          /\ ExpectedPath(last.ext_type, name, last.project_path) \in DOMAIN fs
          /\ install_extension(World, last.ext_type, name, last.project_path, TRUE, NoErr).raised
                 = "none"

-----------------------------------------------------------------------------
(* Properties of get_claude_projects *)

\* the entries of ~/.claude/projects that are directories
DirEntries == {e \in disk.projects : e.is_dir}

\* how many pairs of the last listing have this path
PairsWith(path) == Cardinality({k \in 1..Len(last.listing) : last.listing[k][2] = path})

\* C27: get_claude_projects returns only pairs whose path is an existing
\* directory, one pair for each directory entry of ~/.claude/projects whose
\* reconstructed path exists and none for the others, sorted by the lower-cased
\* friendly name; without ~/.claude/projects it returns the empty list.
C27_ProjectsExistSorted ==
    last.op = "get_claude_projects"
    => /\ \A k \in 1..Len(last.listing) : last.listing[k][2] \in disk.dirs
       /\ Len(last.listing) <= Cardinality(disk.projects)
       /\ \A path \in disk.dirs \cup {actual_path(disk, e.name) : e \in DirEntries} :
             PairsWith(path)
                 = IF path \in disk.dirs
                   THEN Cardinality({e \in DirEntries : actual_path(disk, e.name) = path})
                   ELSE 0
       /\ \A i, j \in 1..Len(last.listing) :
             i < j => ~StrLess(lower(Chars(last.listing[j][1])), lower(Chars(last.listing[i][1])))
       /\ ~disk.projects_dir => last.listing = <<>>

C27_Witness ==
    /\ last.op = "get_claude_projects"
    /\ \E i, j \in 1..Len(last.listing) :
          i < j /\ StrLess(Chars(last.listing[j][1]), Chars(last.listing[i][1]))
    /\ \E e \in DirEntries : actual_path(disk, e.name) \notin disk.dirs

\* the name ~/.claude/projects gives a path: "/" and "." become "-"
Encoded(path) ==
    [k \in 1..Len(str(path)) |-> IF str(path)[k] \in {"/", "."} THEN "-" ELSE str(path)[k]]

\* the existing directories at or under the home directory /Users/<user> in
\* which no component but the last has a hyphen
RealPaths ==
    {path \in disk.dirs :
        /\ Len(disk.home) = 2 /\ disk.home[1] = <<"Users">>
        /\ Len(path) >= 2 /\ SubSeq(path, 1, 2) = disk.home
        /\ \A k \in 3..(Len(path) - 1) : "-" \notin Range(path[k])}

\* path with the last k words of its final component as that component and the
\* words before them as components of their own
Candidate(path, k) ==
    LET words == split(path[Len(path)], "-")
    IN  SubSeq(path, 1, Len(path) - 1)
            \o [n \in 1..(Len(words) - k) |-> words[n]]
            \o <<join("-", SubSeq(words, Len(words) - k + 1, Len(words)))>>

\* the number of words of the final component of path
Words(path) == Len(split(path[Len(path)], "-"))

\* a candidate with more separate components than path exists as a directory
FinerExists(path) ==
    Len(path) > 2 /\ \E k \in 1..(Words(path) - 1) : Candidate(path, k) \in disk.dirs

\* the listing has the pair of this path
Listed(path) == \E k \in 1..Len(last.listing) : last.listing[k][2] = path

\* C28 as stated: for every real path (existing, under /Users/<user>, hyphens in
\* the final component only) the entry encoded from it is reconstructed to
\* exactly that path.
C28_ReconstructsRealPath ==
    \A path \in RealPaths : actual_path(disk, Encoded(path)) = path

\* C28: the entry encoded from a real path is reconstructed to the candidate with
\* the most separate components that exists as a directory; that is the real
\* path itself when no candidate with more separate components exists.
C28_FirstExistingCandidate ==
    /\ \A path \in RealPaths :
          /\ ~FinerExists(path) => actual_path(disk, Encoded(path)) = path
          /\ Len(path) > 2
             => \E k \in 1..Words(path) :
                   /\ actual_path(disk, Encoded(path)) = Candidate(path, k)
                   /\ Candidate(path, k) \in disk.dirs
                   /\ \A n \in 1..(k - 1) : Candidate(path, n) \notin disk.dirs
    /\ last.op = "get_claude_projects"
       => \A path \in RealPaths :
             ([name |-> Encoded(path), is_dir |-> TRUE] \in disk.projects /\ ~FinerExists(path))
             => Listed(path)

C28_Witness ==
    /\ last.op = "get_claude_projects"
    /\ \E path \in RealPaths :
          /\ Words(path) > 1
          /\ [name |-> Encoded(path), is_dir |-> TRUE] \in disk.projects
          /\ ~FinerExists(path)
          /\ Candidate(path, 1) \in disk.files
          /\ Listed(path)

-----------------------------------------------------------------------------
(* Properties of the numbered multi-select *)

\* the number a token stands for, -1 for a token that is not a number
TokenValue(t) ==
    CASE t = "0" -> 0 [] t = "1" -> 1 [] t = "2" -> 2 [] t = "3" -> 3 [] t = "4" -> 4
      [] OTHER -> -1

\* the line is one of the commands 'a' and 'n'
IsReset(line) == line \in {<<"a">>, <<"n">>}

\* the line is a list of numbers and nothing else
IsNumbers(line) == ~IsReset(line) /\ \A k \in 1..Len(line) : TokenValue(line[k]) >= 0

\* the place of the last 'a' or 'n' among lines, 0 when there is none
LastReset(lines) ==
    IF \E k \in 1..Len(lines) : IsReset(lines[k])
    THEN CHOOSE k \in 1..Len(lines) :
            IsReset(lines[k]) /\ \A j \in (k + 1)..Len(lines) : ~IsReset(lines[j])
    ELSE 0

\* how often the number of items[n] was typed, in lines of numbers, since the
\* last 'a' or 'n'
Toggles(lines, n) ==
    Cardinality({<<j, k>> \in (1..Len(lines)) \X (1..2) :
                    /\ j > LastReset(lines) /\ IsNumbers(lines[j])
                    /\ k <= Len(lines[j]) /\ TokenValue(lines[j][k]) = n})

\* the selection the lines typed so far ask for: all items after 'a', none after
\* 'n' or at the start, with the items typed an odd number of times since then
\* switched over
Asked(items, lines) ==
    {items[n] : n \in {m \in 1..Len(items) :
        (LastReset(lines) > 0 /\ lines[LastReset(lines)] = <<"a">>)
            # (Toggles(lines, m) % 2 = 1)}}

-----------------------------------------------------------------------------
(* Properties of the workflow listing *)

\* the workflow file of this name and suffix in the bundled tree
WorkflowFile(name, suffix) ==
    [root |-> "extensions", dir |-> "workflows", stem |-> name, suffix |-> suffix]

\* the file load_workflow_definition is to read for name: .yaml before .yml
ResolvedFile(name) ==
    IF WorkflowFile(name, ".yaml") \in DOMAIN fs
    THEN WorkflowFile(name, ".yaml")
    ELSE WorkflowFile(name, ".yml")

\* every listed workflow name has a file that load_workflow_definition reads,
\* the .yaml one when both are there
ListedWorkflowsResolve ==
    \A k \in 1..Len(last.listing) :
        /\ ResolvedFile(last.listing[k]) \in DOMAIN fs
        /\ load_workflow_definition(World, last.listing[k])
               = yaml_safe_load(fs[ResolvedFile(last.listing[k])])

\* C30: every name list_available("workflow") returns is resolved by
\* load_workflow_definition to a file, <name>.yaml before <name>.yml, and the
\* names returned are pairwise distinct even when both files exist.
C30_ListedWorkflowsLoadDistinct ==
    (last.op = "list_available" /\ last.ext_type = "workflow")
    => /\ ListedWorkflowsResolve
       /\ PairwiseDistinct(last.listing)
====
